---------------------------- MODULE Spec2Model ----------------------------
(***************************************************************************)
(* Incremental vector-indexing pipeline of the real-estate repository:     *)
(*   PropertyVectorsModel            the record validator (pydantic)       *)
(*   Milvus_VectorDatabase           get_property_ids, insert_properties   *)
(*   EmbeddingService                encode_batch and its worker pool      *)
(*   PropertyVectorBuilder           process_store_to_vdb                  *)
(*                                                                         *)
(* Representation of Python values:                                        *)
(*   None / a missing key  <<>>         a present value v   <<v>>          *)
(*   a property_id         the tuple of its characters                     *)
(*   any other string      [core, pad]: core characters between the first  *)
(*                         and last non-blank one, pad blank characters    *)
(*                         around them                                     *)
(*   a float with decimals an integer number of 1/Scale units              *)
(*   an embedding          [len, dir, mag]: number of components, the      *)
(*                         direction (0 when the magnitude is 0) and the   *)
(*                         magnitude                                       *)
(***************************************************************************)
EXTENDS Integers, Sequences, FiniteSets, TLC

\* ------------------------------------------------------------------ bounds
\* Resolution of the fixed-point image of area_sqm, latitude and longitude.
Scale == 10
\* Number of distinct property identifiers drawn.
NumIds == 4
\* Longest list handed to insert_properties.
MaxProps == 3
\* Longest list of texts handed to encode_batch.
MaxTexts == 3
\* Largest page size handed to get_property_ids by a direct caller.
MaxPage == 3
\* Largest number of pipeline runs started one after another.
MaxRuns == 2

\* ------------------------------------------------------- Python's optionals
None == <<>>
Some(v) == <<v>>
IsNone(x) == x = <<>>
Val(x) == x[1]

Min(a, b) == IF a < b THEN a ELSE b

\* --------------------------------------------------------------- strings
Str(core, pad) == [core |-> core, pad |-> pad]
\* str.strip() / pydantic's str_strip_whitespace
Strip(s) == [core |-> s.core, pad |-> 0]
StrLen(s) == s.core + s.pad

\* Characters, in byte order (the order Milvus compares VARCHAR keys by).
Alphabet ==
    << " ", "0", "1", "2", "3", "4", "5", "6", "7", "8", "9", "A", "F", "_",
       "a", "b", "c", "d", "e", "f", "g", "m", "p", "q", "r", "t", "u", "y", "z" >>
Ord(c) == CHOOSE k \in 1..Len(Alphabet) : Alphabet[k] = c
LowerChars == {"a", "b", "c", "d", "e", "f", "g", "m", "p", "q", "r", "t", "u", "y", "z"}
HexChars == {"0", "1", "2", "3", "4", "5", "6", "7", "8", "9", "a", "b", "c", "d", "e", "f"}

\* Python's / Milvus' string comparison  a < b  on character tuples.
RECURSIVE StrLess(_, _)
StrLess(a, b) ==
    IF b = <<>> THEN FALSE
    ELSE IF a = <<>> THEN TRUE
    ELSE IF a[1] = b[1] THEN StrLess(Tail(a), Tail(b))
    ELSE Ord(a[1]) < Ord(b[1])

\* str.strip() on a character tuple.
RECURSIVE LStrip(_)
LStrip(s) == IF s # <<>> /\ s[1] = " " THEN LStrip(Tail(s)) ELSE s
RECURSIVE RStrip(_)
RStrip(s) ==
    IF s # <<>> /\ s[Len(s)] = " " THEN RStrip(SubSeq(s, 1, Len(s) - 1)) ELSE s
StripChars(s) == RStrip(LStrip(s))

\* Positions of "_" in a character tuple.
Underscores(s) == {k \in 1..Len(s) : s[k] = "_"}
Max(S) == CHOOSE m \in S : \A x \in S : x <= m

\* ------------------------------------------------------------- embeddings
Vec(len, dir, mag) == [len |-> len, dir |-> dir, mag |-> mag]
\* np.zeros(n, dtype=np.float32)
Zeros(n) == Vec(n, 0, 0)

\* ------------------------------------------------- PropertyVectorsModel
\* Field(min_length=..., max_length=...) bounds of the model.
IdMinLen == 18
IdMaxLen == 28
HashLen == 16
MinSourceLen == 2
EmbMinLen == 384
EmbMaxLen == 1536
TextMinLen == 10
TextMaxLen == 12000
TitleMinLen == 3
TitleMaxLen == 500
PriceFloor == 1000
PriceCeil == 1000000000
MaxBedrooms == 25
MaxBathrooms == 15
AreaFloor == 9
AreaCeil == 10000
MinFloor == -2
MaxFloor == 100
LatMin == 22
LatMax == 32
LonMin == 25
LonMax == 37

\* pattern="^[a-z]+_[a-f0-9]{16}$"
MatchesIdPattern(s) ==
    \E k \in 2..Len(s) :
        /\ s[k] = "_"
        /\ \A j \in 1..(k - 1) : s[j] \in LowerChars
        /\ Len(s) - k = HashLen
        /\ \A j \in (k + 1)..Len(s) : s[j] \in HexChars

\* validate_property_id_format: the ValueError it raises, or "" when it returns.
validate_property_id_format(v) ==
    IF Underscores(v) = {} THEN "property_id must contain underscore separator"
    ELSE LET cut == Max(Underscores(v))
             source == SubSeq(v, 1, cut - 1)
             hash_part == SubSeq(v, cut + 1, Len(v))
         IN  IF Len(source) < MinSourceLen
                 THEN "Source prefix must be at least 2 characters"
             ELSE IF Len(hash_part) # HashLen
                 THEN "Hash must be 16 characters"
             ELSE IF \E j \in 1..Len(hash_part) : hash_part[j] \notin HexChars
                 THEN "Hash must be lowercase hexadecimal"
             ELSE ""

\* The error of the field property_id ("" when it validates): the core string
\* checks on the stripped value, then the two field validators in order.
PropertyIdError(x) ==
    IF IsNone(x) THEN "string_type"
    ELSE LET v == StripChars(Val(x))
         IN  IF Len(v) < IdMinLen THEN "string_too_short"
             ELSE IF Len(v) > IdMaxLen THEN "string_too_long"
             ELSE IF ~MatchesIdPattern(v) THEN "string_pattern_mismatch"
             ELSE IF validate_property_id_format(v) # ""
                 THEN validate_property_id_format(v)
             ELSE IF StripChars(v) = <<>> THEN "Field cannot be empty"
             ELSE ""

\* validate_required_strings: the ValueError it raises, or "".
validate_required_strings(v) ==
    IF StrLen(v) = 0 \/ v.core = 0 THEN "Field cannot be empty" ELSE ""

\* A str field with Field(min_length, max_length), str_strip_whitespace on;
\* required says whether validate_required_strings is registered for it.
StringError(x, min_length, max_length, required) ==
    IF IsNone(x) THEN "string_type"
    ELSE LET v == Strip(Val(x))
         IN  IF StrLen(v) < min_length THEN "string_too_short"
             ELSE IF StrLen(v) > max_length THEN "string_too_long"
             ELSE IF required THEN validate_required_strings(v)
             ELSE ""

\* validate_embedding with the zero-vector check left out.
validate_embedding_no_magnitude(v) ==
    IF v.len < EmbMinLen \/ v.len > EmbMaxLen
        THEN "Embedding must be exactly 384 dimensions"
    ELSE ""

\* validate_embedding: the ValueError it raises, or "".
validate_embedding(v) ==
    IF v.len < EmbMinLen \/ v.len > EmbMaxLen
        THEN "Embedding must be exactly 384 dimensions"
    ELSE IF v.mag = 0 THEN "Embedding cannot be zero vector"
    ELSE ""

\* embedding: List[float] = Field(..., min_length=384, max_length=384*4)
EmbeddingError(x) ==
    IF IsNone(x) THEN "list_type"
    ELSE IF Val(x).len < EmbMinLen THEN "too_short"
    ELSE IF Val(x).len > EmbMaxLen THEN "too_long"
    ELSE validate_embedding(Val(x))

\* A required number with exclusive bounds gt/lt or inclusive bounds ge/le.
ExclusiveError(x, gt, lt) ==
    IF IsNone(x) THEN "number_type"
    ELSE IF ~(Val(x) > gt) THEN "greater_than"
    ELSE IF ~(Val(x) < lt) THEN "less_than"
    ELSE ""
InclusiveError(x, ge, le) ==
    IF IsNone(x) THEN "number_type"
    ELSE IF ~(Val(x) >= ge) THEN "greater_than_equal"
    ELSE IF ~(Val(x) <= le) THEN "less_than_equal"
    ELSE ""
\* area_sqm: float = Field(..., gt=9, le=10000)
AreaError(x) ==
    IF IsNone(x) THEN "number_type"
    ELSE IF ~(Val(x) > AreaFloor * Scale) THEN "greater_than"
    ELSE IF ~(Val(x) <= AreaCeil * Scale) THEN "less_than_equal"
    ELSE ""
\* Optional[...] = Field(None, ge=..., le=...): None validates.
OptionalError(x, ge, le) == IF IsNone(x) THEN "" ELSE InclusiveError(x, ge, le)

\* The error of each field of PropertyVectorsModel(**prop).
FieldError(prop, f) ==
    CASE f = "property_id"   -> PropertyIdError(prop.property_id)
      [] f = "source"        -> StringError(prop.source, 1, 200, TRUE)
      [] f = "url"           -> StringError(prop.url, 1, 500, TRUE)
      [] f = "location"      -> StringError(prop.location, 2, 200, TRUE)
      [] f = "embedding"     -> EmbeddingError(prop.embedding)
      [] f = "text"          -> StringError(prop.text, TextMinLen, TextMaxLen, TRUE)
      [] f = "title"         -> StringError(prop.title, TitleMinLen, TitleMaxLen, TRUE)
      [] f = "property_type" -> StringError(prop.property_type, 1, 100, TRUE)
      [] f = "listing_type"  -> StringError(prop.listing_type, 0, 50, FALSE)
      [] f = "price_egp"     -> ExclusiveError(prop.price_egp, PriceFloor, PriceCeil)
      [] f = "bedrooms"      -> InclusiveError(prop.bedrooms, 0, MaxBedrooms)
      [] f = "bathrooms"     -> InclusiveError(prop.bathrooms, 0, MaxBathrooms)
      [] f = "area_sqm"      -> AreaError(prop.area_sqm)
      [] f = "floor_number"  -> OptionalError(prop.floor_number, MinFloor, MaxFloor)
      [] f = "latitude"      -> OptionalError(prop.latitude, LatMin * Scale, LatMax * Scale)
      [] f = "longitude"     -> OptionalError(prop.longitude, LonMin * Scale, LonMax * Scale)

ModelFields ==
    { "property_id", "source", "url", "location", "embedding", "text", "title",
      "property_type", "listing_type", "price_egp", "bedrooms", "bathrooms",
      "area_sqm", "floor_number", "latitude", "longitude" }

\* The pydantic ValidationError of PropertyVectorsModel(**prop): every field
\* that fails, with its error; the empty set when the record validates.
ValidationErrors(prop) ==
    {<<f, FieldError(prop, f)>> : f \in {g \in ModelFields : FieldError(prop, g) # ""}}

\* The value a validated str field holds: the stripped string.
StripField(x) == IF IsNone(x) THEN None ELSE Some(Strip(Val(x)))

\* validated.model_dump(): the model's fields only (a key the model does not
\* declare, such as description or address, is ignored), strings stripped.
model_dump(prop) ==
    [ property_id   |-> IF IsNone(prop.property_id) THEN None
                        ELSE Some(StripChars(Val(prop.property_id))),
      source        |-> StripField(prop.source),
      url           |-> StripField(prop.url),
      location      |-> StripField(prop.location),
      embedding     |-> prop.embedding,
      text          |-> StripField(prop.text),
      title         |-> StripField(prop.title),
      property_type |-> StripField(prop.property_type),
      listing_type  |-> StripField(prop.listing_type),
      price_egp     |-> prop.price_egp,
      bedrooms      |-> prop.bedrooms,
      bathrooms     |-> prop.bathrooms,
      area_sqm      |-> prop.area_sqm,
      floor_number  |-> prop.floor_number,
      latitude      |-> prop.latitude,
      longitude     |-> prop.longitude ]

\* ------------------------------------------------------------- the inputs
\* Embedding dimension a deployment is configured with by default
\* (Milvus_VectorDatabase and EmbeddingService both default to it).
DefaultEmbeddingDim == 768

HexDigit(k) == <<"0", "1", "2", "3", "4", "5", "6", "7", "8", "9", "a", "b", "c", "d", "e", "f">>[k + 1]
Aqarmap == <<"a", "q", "a", "r", "m", "a", "p">>
Bayut == <<"b", "a", "y", "u", "t">>
\* The k-th identifier drawn: "<source>_000000000000000<k>", the sources
\* alternating so that byte order is not the order of k.
Id(k) ==
    (IF k % 2 = 1 THEN Bayut ELSE Aqarmap) \o <<"_">>
        \o [j \in 1..(HashLen - 1) |-> "0"] \o <<HexDigit(k % 16)>>
PropertyIds == {Id(k) : k \in 1..NumIds}

\* An embedding as EmbeddingService returns it for a request that succeeded:
\* unit length, the direction that of the text embedded.
GoodEmbedding(n, k) == Vec(n, k, 1)

\* A row as the mart query returns it, transformed: every field valid.
GoodProp(k) ==
    [ property_id   |-> Some(Id(k)),
      source        |-> Some(Str(IF k % 2 = 1 THEN 5 ELSE 7, 0)),
      url           |-> Some(Str(40 + k, 0)),
      location      |-> Some(Str(10, 0)),
      embedding     |-> Some(GoodEmbedding(DefaultEmbeddingDim, k)),
      text          |-> Some(Str(60 + k, 0)),
      title         |-> Some(Str(20, 2)),
      property_type |-> Some(Str(9, 0)),
      listing_type  |-> Some(Str(4, 0)),
      price_egp     |-> Some(2500000),
      bedrooms      |-> Some(3),
      bathrooms     |-> Some(2),
      area_sqm      |-> Some(120 * Scale),
      floor_number  |-> Some(2),
      latitude      |-> Some(30 * Scale),
      longitude     |-> Some(31 * Scale),
      description   |-> Some(Str(80, 0)),
      address       |-> Some(Str(30, 0)) ]

\* Values of area_sqm around the two ends of the range (in 1/Scale units).
AreaSamples ==
    { Some(AreaFloor * Scale), Some(AreaFloor * Scale + Scale \div 2),
      Some((AreaFloor + 1) * Scale), Some(120 * Scale), Some(AreaCeil * Scale),
      Some(AreaCeil * Scale + 1), None }
\* Embeddings around the two ends of the accepted lengths, zero and not.
EmbeddingSamples ==
    { Some(Vec(n, d, d)) :
        n \in {EmbMinLen - 1, EmbMinLen, DefaultEmbeddingDim, EmbMaxLen, EmbMaxLen + 1},
        d \in {0, 1} } \cup {None}
\* One other field changed at a time (the first variant changes nothing).
OtherVariants(base) ==
    { base,
      [base EXCEPT !.title = Some(Str(TitleMinLen - 1, 2))],
      [base EXCEPT !.title = Some(Str(TitleMinLen, 2))],
      [base EXCEPT !.text = Some(Str(TextMinLen - 1, 0))],
      [base EXCEPT !.text = Some(Str(TextMinLen, 0))],
      [base EXCEPT !.listing_type = Some(Str(0, 0))],
      [base EXCEPT !.location = Some(Str(1, 0))],
      [base EXCEPT !.price_egp = Some(PriceFloor)],
      [base EXCEPT !.price_egp = Some(PriceFloor + 1)],
      [base EXCEPT !.price_egp = Some(PriceCeil)],
      [base EXCEPT !.bedrooms = Some(MaxBedrooms + 1)],
      [base EXCEPT !.bathrooms = Some(MaxBathrooms)],
      [base EXCEPT !.floor_number = None],
      [base EXCEPT !.floor_number = Some(MinFloor - 1)],
      [base EXCEPT !.latitude = None],
      [base EXCEPT !.latitude = Some(LatMax * Scale + Scale \div 2)],
      [base EXCEPT !.longitude = Some(LonMin * Scale - 1)],
      [base EXCEPT !.property_id = None],
      [base EXCEPT !.property_id = Some(<<" ">> \o Id(1) \o <<" ">>)],
      [base EXCEPT !.property_id = Some(<<"a">> \o Tail(Tail(Id(2))))],
      [base EXCEPT !.property_id = Some(<<"a", "_">> \o Tail(Tail(Id(2))))],
      [base EXCEPT !.property_id = Some(SubSeq(Id(1), 1, Len(Id(1)) - 1) \o <<"A">>)],
      [base EXCEPT !.property_id = Some(SubSeq(Id(1), 1, Len(Id(1)) - 1) \o <<"g">>)],
      [base EXCEPT !.property_id = Some(<<"a", "q">> \o Id(2) \o Id(2))] }
\* The records handed to the validator.
ValidatorInputs ==
    UNION { OtherVariants([GoodProp(1) EXCEPT !.area_sqm = a, !.embedding = e]) :
            a \in AreaSamples, e \in EmbeddingSamples }

\* ------------------------------------------------------------------ state
VARIABLES
    \* Milvus_VectorDatabase: the client handle and the collection
    milvus_client,      \* TRUE once connect() has set self.client
    collection_dim,     \* "dim" of the collection's embedding field
    store,              \* the rows of the collection, one per primary key
    \* PropertyVectorsModel(**candidate)
    candidate,          \* the dict handed to the constructor
    verdict,            \* None, or the ValidationErrors of the construction
    \* insert_properties
    insert_pc,          \* "idle", "validate", "upsert", "finish", "returned", "raised", "interrupted"
    properties,         \* the list handed in
    batch_size,
    i,                  \* start of the current batch (0-based, as in range())
    batch_validated,    \* model_dump of the batch's records that validated
    batch_positions,    \* history: the position in properties of each of them
    total_inserted,
    failed_records,
    insert_ret,         \* None, or the dict returned
    upsert_calls,       \* history: per upsert call, [batch_num, positions, raised]
    upsert_payload,     \* history: data= of the most recent upsert call
    \* get_property_ids
    ids_pc,             \* "idle", "loop", "finish", "returned", "raised"
    ids_batch_size,     \* its batch_size argument (the page size)
    unique_ids,
    last_property_id,   \* None, or the cursor
    total_fetched,
    iteration,
    pages,              \* history: the rows each query returned
    ids_ret,            \* None, or the list returned
    ids_before,         \* the keys in the collection when the first page was asked for
    \* EmbeddingService.encode_batch
    embedding_dim,      \* self.embedding_dim
    embed_pc,           \* "idle", "batch", "submit", "collect", "fill", "finish", "returned"
    texts,
    embed_batch_size,   \* its batch_size argument
    batch_num,
    all_embeddings,
    batch_embeddings,   \* of the batch in progress: None, or a vector, per slot
    futures,            \* per future of the batch: [st, result]
    future_to_index,
    responses,          \* history: per text, what its request to the provider met
    batch_origin,       \* history: per slot, the text whose result was written there
    all_origin,         \* history: the same, per entry of all_embeddings
    overtaken,          \* history: some result was collected after a later one
    \* PropertyVectorBuilder.process_store_to_vdb
    run_pc,             \* "idle", "enumerate", "fetched", "raised"
    runs,               \* calls of process_store_to_vdb so far
    vectodb_ids,        \* None, or the list get_property_ids returned
    run_exc,            \* None, or the exception the run ended with
    run_ret,            \* None, or the summary the run returned
    validation_failures, \* None, or the list written to validation_failures.json
    \* EmbeddingService.encode
    encode_response,    \* history: None, or what the request of encode(text) met
    encode_ret,         \* None, or the vector encode returned
    encode_exc,         \* None, or the exception encode raised
    \* the clients and PropertyVectorBuilder.__init__
    bigquery_client,    \* Big_Query_Database.client is not None
    builder,            \* "none", "constructed", "raised" (ConnectionError)
    \* EmbeddingService.__init__
    embedder,           \* "none", "constructed", "raised" (ConnectionError)
    model_name,         \* self.model_name
    health,             \* history: None, or what the two startup requests met
    \* the mart table
    mart,               \* the rows the fetch query selects, by the number of their id
    mart_row,           \* None, or the row create_mart_table wrote for a raw row
    \* PropertyVectorBuilder.transform_properties
    transform_pc,       \* "idle", "embed", "embedding", "returned", "raised"
    t_properties,       \* its properties argument: the dicts, as they are now
    fetched,            \* history: the same dicts as they were when handed over
    t_embed_batch_size, \* its embed_batch_size argument
    valid_props,        \* positions in t_properties of the records kept
    t_texts,            \* texts, one per record kept
    transform_ret,      \* None, or the list returned
    transform_exc       \* None, or the exception raised

validate_vars == <<candidate, verdict>>
milvus_vars == <<milvus_client, collection_dim, store>>
insert_vars ==
    << insert_pc, properties, batch_size, i, batch_validated, batch_positions,
       total_inserted, failed_records, insert_ret, upsert_calls, upsert_payload >>
embed_vars ==
    << embedding_dim, embed_pc, texts, embed_batch_size, batch_num, all_embeddings,
       batch_embeddings, futures, future_to_index, responses, batch_origin,
       all_origin, overtaken >>
encode_vars == <<encode_response, encode_ret, encode_exc>>
build_vars == <<bigquery_client, builder>>
service_vars == <<embedder, model_name, health>>
source_vars == <<mart, mart_row>>
transform_vars ==
    << transform_pc, t_properties, fetched, t_embed_batch_size, valid_props, t_texts,
       transform_ret, transform_exc >>
rest_vars == <<encode_vars, build_vars, service_vars, source_vars, transform_vars>>
run_vars == <<run_pc, runs, vectodb_ids, run_exc, run_ret, validation_failures>>
ids_vars ==
    << ids_pc, ids_batch_size, unique_ids, last_property_id, total_fetched,
       iteration, pages, ids_ret, ids_before >>

\* ------------------------------------------- PropertyVectorsModel(**prop)
ValidateIdle == candidate = None /\ verdict = None

\* The constructor runs on the candidate: it returns, or raises ValidationError.
Construct ==
    /\ candidate # None
    /\ verdict = None
    /\ verdict' = Some(ValidationErrors(Val(candidate)))
    /\ UNCHANGED <<candidate, milvus_vars, insert_vars, ids_vars, embed_vars, run_vars, rest_vars>>

\* ------------------------------------------------------ insert_properties
InsertIdle ==
    /\ insert_pc = "idle"
    /\ properties = <<>>
    /\ batch_size = 1
    /\ i = 0
    /\ batch_validated = <<>>
    /\ batch_positions = <<>>
    /\ total_inserted = 0
    /\ failed_records = <<>>
    /\ insert_ret = None
    /\ upsert_calls = <<>>
    /\ upsert_payload = <<>>

\* prop.get('property_id')
GetPropertyId(prop) == prop.property_id

\* batch = properties[i:i + batch_size], as 1-based positions
BatchPositions(props, start, size) == (start + 1)..Min(start + size, Len(props))
\* batch_num = (i // batch_size) + 1
BatchNum(start, size) == (start \div size) + 1
\* total_batches = (len(properties) + batch_size - 1) // batch_size
TotalBatches(n, size) == (n + size - 1) \div size

\* Whether PropertyVectorsModel(**prop) returns (the try of the loop succeeds).
Validates(prop) == ValidationErrors(prop) = {}

\* ValidatedPositions with the append moved out of the try: every record kept.
EveryPosition(props, lo, hi) == [j \in 1..(hi - lo + 1) |-> lo + j - 1]

\* ValidatedPositions with one rejected record giving up the whole batch.
ValidatedOrNone(props, lo, hi) ==
    IF \A p \in lo..hi : Validates(props[p]) THEN EveryPosition(props, lo, hi) ELSE <<>>

\* The positions of a batch whose record validates, in order.
RECURSIVE ValidatedPositions(_, _, _)
ValidatedPositions(props, lo, hi) ==
    IF lo > hi THEN <<>>
    ELSE (IF Validates(props[lo]) THEN <<lo>> ELSE <<>>)
             \o ValidatedPositions(props, lo + 1, hi)

\* The failed_records entries the validation loop appends for a batch, in order.
RECURSIVE ValidationFailures(_, _, _)
ValidationFailures(props, lo, hi) ==
    IF lo > hi THEN <<>>
    ELSE (IF Validates(props[lo]) THEN <<>>
          ELSE << [ property_id |-> GetPropertyId(props[lo]),
                    kind |-> "validation",
                    error |-> ValidationErrors(props[lo]) ] >>)
             \o ValidationFailures(props, lo + 1, hi)

\* InsertFailures with the except branch only logging the error.
NoInsertFailures(data, e) == <<>>

\* The failed_records entries the except branch of the upsert appends.
InsertFailures(data, e) ==
    [ j \in 1..Len(data) |->
        [ property_id |-> GetPropertyId(data[j]),
          kind |-> "insert",
          error |-> {<<"Insert failed", e>>} ] ]

\* Where the for loop goes after the batch starting at start.
NextBatch(start, size) == start + size
LoopPc(next, n) == IF next < n THEN "validate" ELSE "finish"
\* ResumeAfterRaise with the except branch leaving the loop.
AbortAfterRaise(start, size, n) == n

\* Where the loop resumes after the upsert of the batch at start raised
\* (n is len(properties)): the except branch falls through to the next batch.
ResumeAfterRaise(start, size, n) == NextBatch(start, size)

\* Upserted as a plain insert: the rows are added, none is replaced.
Inserted(rows, data) == rows \cup {data[j] : j \in 1..Len(data)}

\* The collection after upsert(data): each row replaces the row of its key;
\* of two rows with one key in data the later one stays.
Upserted(rows, data) ==
    LET keys == {data[j].property_id : j \in 1..Len(data)}
        last(k) == Max({j \in 1..Len(data) : data[j].property_id = k})
    IN  {r \in rows : r.property_id \notin keys} \cup {data[last(k)] : k \in keys}

\* Whether the collection's schema takes every row of data (FLOAT_VECTOR dim).
FitsSchema(data, dim) ==
    \A j \in 1..Len(data) :
        ~IsNone(data[j].embedding) /\ Val(data[j].embedding).len = dim

\* InsertedOf counting the upsert calls that returned, not their records.
InsertedCalls(result, data) == 1

\* What the store may answer to a successful upsert of n rows.
UpsertResults(n) == {[upsert_count |-> n], [upsert_count |-> n, insert_count |-> n]}
\* inserted = result.get('insert_count', len(batch_validated))
InsertedOf(result, data) ==
    IF "insert_count" \in DOMAIN result THEN result.insert_count ELSE Len(data)

\* insert_properties(props, size) is called: the guards before the loop.
InsertCall(props, size) ==
    /\ insert_pc = "idle"
    /\ properties' = props
    /\ batch_size' = size
    /\ IF ~milvus_client
         THEN insert_pc' = "raised" /\ insert_ret' = insert_ret
         ELSE IF props = <<>>
           THEN /\ insert_pc' = "returned"
                /\ insert_ret' = Some([ total |-> 0, inserted |-> 0, failed |-> 0,
                                        failed_records |-> <<>> ])
           ELSE insert_pc' = "validate" /\ insert_ret' = insert_ret
    /\ i' = 0
    /\ total_inserted' = 0
    /\ failed_records' = <<>>
    /\ UNCHANGED <<batch_validated, batch_positions, upsert_calls, upsert_payload>>
    /\ UNCHANGED <<milvus_vars, validate_vars, ids_vars, embed_vars, run_vars, rest_vars>>

\* One pass of the validation loop over the batch at i.
ValidateBatch ==
    /\ insert_pc = "validate"
    /\ LET lo == i + 1
           hi == Min(i + batch_size, Len(properties))
           pos == ValidatedPositions(properties, lo, hi)
       IN  /\ batch_positions' = pos
           /\ batch_validated' = [j \in 1..Len(pos) |-> model_dump(properties[pos[j]])]
           /\ failed_records' = failed_records \o ValidationFailures(properties, lo, hi)
           /\ IF pos # <<>>
                THEN insert_pc' = "upsert" /\ i' = i
                ELSE /\ i' = NextBatch(i, batch_size)
                     /\ insert_pc' = LoopPc(NextBatch(i, batch_size), Len(properties))
    /\ UNCHANGED <<properties, batch_size, total_inserted, insert_ret, upsert_calls,
                   upsert_payload>>
    /\ UNCHANGED <<milvus_vars, validate_vars, ids_vars, embed_vars, run_vars, rest_vars>>

\* self.client.upsert(data=batch_validated) returns.
UpsertReturns ==
    /\ insert_pc = "upsert"
    /\ FitsSchema(batch_validated, collection_dim)
    /\ \E result \in UpsertResults(Len(batch_validated)) :
          total_inserted' = total_inserted + InsertedOf(result, batch_validated)
    /\ store' = Upserted(store, batch_validated)
    /\ upsert_calls' = Append(upsert_calls,
          [ batch_num |-> BatchNum(i, batch_size), positions |-> batch_positions,
            raised |-> FALSE, num_entities |-> Cardinality(store) ])
    /\ upsert_payload' = batch_validated
    /\ i' = NextBatch(i, batch_size)
    /\ insert_pc' = LoopPc(NextBatch(i, batch_size), Len(properties))
    /\ UNCHANGED <<properties, batch_size, batch_validated, batch_positions,
                   failed_records, insert_ret>>
    /\ UNCHANGED <<milvus_client, collection_dim, validate_vars, ids_vars, embed_vars, run_vars, rest_vars>>

\* self.client.upsert(data=batch_validated) raises: the schema refusing a row,
\* or a transport error, which may reach the caller after the server has
\* applied the write as well as before.
UpsertRaises ==
    /\ insert_pc = "upsert"
    /\ \E e \in {"MilvusException"} \cup
                (IF FitsSchema(batch_validated, collection_dim) THEN {}
                 ELSE {"DataNotMatchException"}) :
          failed_records' = failed_records \o InsertFailures(batch_validated, e)
    /\ upsert_calls' = Append(upsert_calls,
          [ batch_num |-> BatchNum(i, batch_size), positions |-> batch_positions,
            raised |-> TRUE, num_entities |-> Cardinality(store) ])
    /\ upsert_payload' = batch_validated
    /\ store' \in {store} \cup
                  (IF FitsSchema(batch_validated, collection_dim)
                   THEN {Upserted(store, batch_validated)} ELSE {})
    /\ i' = ResumeAfterRaise(i, batch_size, Len(properties))
    /\ insert_pc' = LoopPc(ResumeAfterRaise(i, batch_size, Len(properties)),
                           Len(properties))
    /\ UNCHANGED <<properties, batch_size, batch_validated, batch_positions,
                   total_inserted, insert_ret>>
    /\ UNCHANGED <<milvus_client, collection_dim, validate_vars, ids_vars, embed_vars, run_vars, rest_vars>>

\* The loop is over: the statistics dict is returned.
InsertReturn ==
    /\ insert_pc = "finish"
    /\ insert_ret' = Some([ total |-> Len(properties), inserted |-> total_inserted,
                            failed |-> Len(failed_records),
                            failed_records |-> failed_records ])
    /\ insert_pc' = "returned"
    /\ UNCHANGED <<properties, batch_size, i, batch_validated, batch_positions,
                   total_inserted, failed_records, upsert_calls, upsert_payload>>
    /\ UNCHANGED <<milvus_vars, validate_vars, ids_vars, embed_vars, run_vars, rest_vars>>

\* KeyboardInterrupt arrives while the loop runs, between two batches or
\* with a batch validated and not yet sent. It is no Exception: the except
\* branches of the loop do not catch it, nothing is returned, and what was
\* written to the collection stays.
Interrupt ==
    /\ insert_pc \in {"validate", "upsert"}
    /\ insert_pc' = "interrupted"
    /\ UNCHANGED <<properties, batch_size, i, batch_validated, batch_positions,
                   total_inserted, failed_records, insert_ret, upsert_calls,
                   upsert_payload>>
    /\ UNCHANGED <<milvus_vars, validate_vars, ids_vars, embed_vars, run_vars, rest_vars>>

\* ------------------------------------------------------- get_property_ids
IdsIdle ==
    /\ ids_pc = "idle"
    /\ ids_batch_size = 1
    /\ unique_ids = {}
    /\ last_property_id = None
    /\ total_fetched = 0
    /\ iteration = 0
    /\ pages = <<>>
    /\ ids_ret = None
    /\ ids_before = {}

\* The primary keys of the rows of the collection.
StoreIds(rows) == {Val(r.property_id) : r \in rows}

\* sorted(...) of a set of identifiers: ascending byte order.
Sorted(S) ==
    [j \in 1..Cardinality(S) |->
        CHOOSE x \in S : Cardinality({y \in S : StrLess(y, x)}) = j - 1]

\* MatchesFilter with the filter left empty on every page.
MatchesAny(id, cursor) == TRUE

\* filter_expression: "" on the first page, 'property_id > "<cursor>"' after.
MatchesFilter(id, cursor) == IsNone(cursor) \/ StrLess(Val(cursor), id)

\* Query with the order of the rows left to the store: the last limit keys,
\* descending.
QueryUnordered(rows, cursor, limit) ==
    LET hits == Sorted({id \in StoreIds(rows) : MatchesFilter(id, cursor)})
    IN  [j \in 1..Min(limit, Len(hits)) |-> hits[Len(hits) + 1 - j]]

\* self.client.query(filter=..., limit=batch_size, order_by property_id ASC):
\* the first limit keys, ascending, of those the filter keeps.
Query(rows, cursor, limit) ==
    LET hits == Sorted({id \in StoreIds(rows) : MatchesFilter(id, cursor)})
    IN  SubSeq(hits, 1, Min(limit, Len(hits)))

\* LastPage with the test widened to <=.
LastPageOrFull(batch_count, size) == batch_count <= size

\* if batch_count < batch_size: break
LastPage(batch_count, size) == batch_count < size

\* get_property_ids(size) is called: the guard, the locals of the loop.
GetIdsCall(size) ==
    /\ ids_pc \in {"idle", "returned", "raised"}
    /\ ids_batch_size' = size
    /\ ids_pc' = IF milvus_client THEN "loop" ELSE "raised"
    /\ unique_ids' = {}
    /\ last_property_id' = None
    /\ total_fetched' = 0
    /\ iteration' = 0
    /\ pages' = <<>>
    /\ ids_ret' = None
    /\ ids_before' = {}

\* One turn of the while loop whose query returns.
GetIdsPage ==
    /\ ids_pc = "loop"
    /\ iteration' = iteration + 1
    /\ ids_before' = IF iteration = 0 THEN StoreIds(store) ELSE ids_before
    /\ LET results == Query(store, last_property_id, ids_batch_size)
           batch_count == Len(results)
       IN  /\ pages' = Append(pages, results)
           /\ IF results = <<>>
                THEN /\ ids_pc' = "finish"
                     /\ UNCHANGED <<unique_ids, last_property_id, total_fetched>>
                ELSE /\ total_fetched' = total_fetched + batch_count
                     /\ unique_ids' = unique_ids \cup {results[j] : j \in 1..batch_count}
                     /\ last_property_id' = Some(results[batch_count])
                     /\ ids_pc' = IF LastPage(batch_count, ids_batch_size)
                                  THEN "finish" ELSE "loop"
    /\ UNCHANGED <<ids_batch_size, ids_ret>>

\* load_collection or a query raises: logged and raised again.
GetIdsRaises ==
    /\ ids_pc = "loop"
    /\ ids_pc' = "raised"
    /\ UNCHANGED <<ids_batch_size, unique_ids, last_property_id, total_fetched,
                   iteration, pages, ids_ret, ids_before>>

\* return sorted(list(unique_ids))
GetIdsReturn ==
    /\ ids_pc = "finish"
    /\ ids_ret' = Some(Sorted(unique_ids))
    /\ ids_pc' = "returned"
    /\ UNCHANGED <<ids_batch_size, unique_ids, last_property_id, total_fetched,
                   iteration, pages, ids_before>>


\* ------------------------------------------------------- EmbeddingService
\* self.max_workers = 2
max_workers == 2
\* text[:1000]
PromptLimit == 1000

\* A text handed to the embedder: which text it is, and its length.
Text(id, len) == [id |-> id, len |-> len]

\* text[:1000].strip(); an empty text is replaced by " ", which strips to "".
Prompt(text) ==
    IF text.len = 0 THEN Text(0, 0) ELSE Text(text.id, Min(text.len, PromptLimit))

\* The direction of the vector the provider computes: one per prompt.
PromptKey(prompt) == prompt.id * (PromptLimit + 1) + prompt.len

\* What requests.post(.../api/embeddings, prompt) can meet: status 200 with the
\* model's vector, unnormalised, possibly with NaN components; another status;
\* an exception (timeout, connection error, a body without "embedding").
OllamaPost(prompt, dim) ==
    { [kind |-> "ok", prompt |-> prompt,
       embedding |-> Some([len |-> dim, dir |-> PromptKey(prompt), mag |-> 2, nan |-> n])]
        : n \in BOOLEAN }
    \cup { [kind |-> k, prompt |-> prompt, embedding |-> None] : k \in {"status", "exception"} }

\* np.nan_to_num(embedding, nan=0.0) when any component is NaN
NanToNum(raw) ==
    IF raw.nan THEN Zeros(raw.len) ELSE Vec(raw.len, raw.dir, raw.mag)

\* embedding / norm if norm > 0, else embedding
_normalize_embedding(v) == IF v.mag > 0 THEN Vec(v.len, v.dir, 1) ELSE v

\* _encode_single whose failure value is an empty array.
_encode_single_empty(response, dim) ==
    IF response.kind = "ok"
        THEN _normalize_embedding(NanToNum(Val(response.embedding)))
        ELSE Zeros(0)

\* _encode_single, given what its request met.
_encode_single(response, dim) ==
    IF response.kind = "ok"
        THEN _normalize_embedding(NanToNum(Val(response.embedding)))
        ELSE Zeros(dim)

EmbedIdle ==
    /\ embedding_dim = DefaultEmbeddingDim
    /\ embed_pc = "idle"
    /\ texts = <<>>
    /\ embed_batch_size = 1
    /\ batch_num = 0
    /\ all_embeddings = <<>>
    /\ batch_embeddings = <<>>
    /\ futures = <<>>
    /\ future_to_index = <<>>
    /\ responses = <<>>
    /\ batch_origin = <<>>
    /\ all_origin = <<>>
    /\ overtaken = FALSE

\* total_batches = (total + batch_size - 1) // batch_size
EmbedTotalBatches == (Len(texts) + embed_batch_size - 1) \div embed_batch_size
BatchStart == batch_num * embed_batch_size
BatchEnd == Min(BatchStart + embed_batch_size, Len(texts))
\* batch = texts[batch_start:batch_end]
Batch == SubSeq(texts, BatchStart + 1, BatchEnd)

\* encode_batch(txts, batch_size=size) is called.
EncodeBatchCall(txts, size) ==
    /\ embedder = "constructed"
    /\ embed_pc = "idle"
    /\ texts' = txts
    /\ embed_batch_size' = size
    /\ batch_num' = 0
    /\ all_embeddings' = <<>>
    /\ all_origin' = <<>>
    /\ responses' = [k \in 1..Len(txts) |-> [kind |-> "none", prompt |-> Prompt(txts[k]),
                                              embedding |-> None]]
    /\ embed_pc' = IF (Len(txts) + size - 1) \div size > 0 THEN "batch" ELSE "finish"
    /\ UNCHANGED <<embedding_dim, batch_embeddings, futures, future_to_index,
                   batch_origin, overtaken>>

\* _process_batch_parallel is entered: the slots, the executor, the empty dict.
BeginBatch ==
    /\ embed_pc = "batch"
    /\ batch_embeddings' = [j \in 1..Len(Batch) |-> None]
    /\ batch_origin' = [j \in 1..Len(Batch) |-> 0]
    /\ futures' = [j \in 1..Len(Batch) |-> [st |-> "unsubmitted", result |-> None]]
    /\ future_to_index' = <<>>
    /\ embed_pc' = "submit"
    /\ UNCHANGED <<embedding_dim, texts, embed_batch_size, batch_num, all_embeddings,
                   responses, all_origin, overtaken>>

\* executor.submit(self._encode_single, text); future_to_index[future] = i
Submit ==
    /\ embed_pc = "submit"
    /\ LET f == Cardinality(DOMAIN future_to_index) + 1
       IN  /\ futures' = [futures EXCEPT ![f].st = "queued"]
           /\ future_to_index' = [g \in DOMAIN future_to_index \cup {f} |->
                                     IF g = f THEN f - 1 ELSE future_to_index[g]]
           /\ embed_pc' = IF f = Len(Batch) THEN "collect" ELSE "submit"
    /\ UNCHANGED <<embedding_dim, texts, embed_batch_size, batch_num, all_embeddings,
                   batch_embeddings, responses, batch_origin, all_origin, overtaken>>

\* PoolSize with one worker thread per text of the batch.
PoolOfBatch(n) == n

\* ThreadPoolExecutor(max_workers=min(self.max_workers, batch_size))
PoolSize(n) == Min(max_workers, n)
Running == {f \in DOMAIN futures : futures[f].st = "running"}
Queued == {f \in DOMAIN futures : futures[f].st = "queued"}

\* A worker thread of the pool takes the oldest queued call.
WorkerStart(f) ==
    /\ embed_pc \in {"submit", "collect"}
    /\ f \in Queued
    /\ \A g \in Queued : f <= g
    /\ Cardinality(Running) < PoolSize(Len(Batch))
    /\ futures' = [futures EXCEPT ![f].st = "running"]
    /\ UNCHANGED <<embedding_dim, embed_pc, texts, embed_batch_size, batch_num,
                   all_embeddings, batch_embeddings, future_to_index, responses,
                   batch_origin, all_origin, overtaken>>

\* The call of future f ends, its request having met r.
WorkerFinish(f, r) ==
    /\ embed_pc \in {"submit", "collect"}
    /\ f \in Running
    /\ futures' = [futures EXCEPT ![f] = [st |-> "done",
                       result |-> Some(_encode_single(r, embedding_dim))]]
    /\ responses' = [responses EXCEPT ![BatchStart + f] = r]
    /\ UNCHANGED <<embedding_dim, embed_pc, texts, embed_batch_size, batch_num,
                   all_embeddings, batch_embeddings, future_to_index,
                   batch_origin, all_origin, overtaken>>

\* status 200
RequestSucceeds(f) ==
    /\ f \in Running
    /\ \E r \in OllamaPost(Prompt(Batch[f]), embedding_dim) :
          r.kind = "ok" /\ WorkerFinish(f, r)
\* any other status
RequestRefused(f) ==
    /\ f \in Running
    /\ \E r \in OllamaPost(Prompt(Batch[f]), embedding_dim) :
          r.kind = "status" /\ WorkerFinish(f, r)
\* except Exception
RequestRaises(f) ==
    /\ f \in Running
    /\ \E r \in OllamaPost(Prompt(Batch[f]), embedding_dim) :
          r.kind = "exception" /\ WorkerFinish(f, r)

\* Every result written to the first slot.
FirstSlot(idx, collected) == 1

\* Write every result in the order the futures complete.
CompletionSlot(idx, collected) == collected + 1

\* batch_embeddings[idx], idx counted from 0
Slot(idx, collected) == idx + 1

\* The futures still in the dict.
Pending == DOMAIN future_to_index

\* One turn of "for future in as_completed(future_to_index)": any future that
\* is done; idx = future_to_index.pop(future); batch_embeddings[idx] = result.
Collect(f) ==
    /\ embed_pc = "collect"
    /\ f \in Pending
    /\ futures[f].st = "done"
    /\ LET idx == future_to_index[f]
           slot == Slot(idx, Len(Batch) - Cardinality(Pending))
       IN  /\ batch_embeddings' = [batch_embeddings EXCEPT ![slot] = futures[f].result]
           /\ batch_origin' = [batch_origin EXCEPT ![slot] = BatchStart + f]
    /\ future_to_index' = [g \in Pending \ {f} |-> future_to_index[g]]
    /\ overtaken' = (overtaken \/ \E g \in DOMAIN futures : g > f /\ g \notin Pending)
    /\ embed_pc' = IF Pending = {f} THEN "fill" ELSE "collect"
    /\ UNCHANGED <<embedding_dim, texts, embed_batch_size, batch_num, all_embeddings,
                   futures, responses, all_origin>>

\* The pool is shut down, a slot still None is set to zeros, the batch is
\* returned and all_embeddings.extend(batch_embeddings); the next batch_num.
EndBatch ==
    /\ embed_pc = "fill"
    /\ all_embeddings' = all_embeddings \o
          [j \in 1..Len(batch_embeddings) |->
              IF IsNone(batch_embeddings[j]) THEN Zeros(embedding_dim)
              ELSE Val(batch_embeddings[j])]
    /\ all_origin' = all_origin \o batch_origin
    /\ batch_num' = batch_num + 1
    /\ embed_pc' = IF batch_num + 1 < EmbedTotalBatches THEN "batch" ELSE "finish"
    /\ UNCHANGED <<embedding_dim, texts, embed_batch_size, batch_embeddings, futures,
                   future_to_index, responses, batch_origin, overtaken>>

\* return all_embeddings
EncodeBatchReturn ==
    /\ embed_pc = "finish"
    /\ embed_pc' = "returned"
    /\ UNCHANGED <<embedding_dim, texts, embed_batch_size, batch_num, all_embeddings,
                   batch_embeddings, futures, future_to_index, responses, batch_origin,
                   all_origin, overtaken>>

\* The model names of the constructor: the one configured, and the fallback.
ConfiguredModel == "configured"
FallbackModel == "nomic-embed-text"

ServiceIdle ==
    /\ embedder = "none"
    /\ model_name = ConfiguredModel
    /\ health = None

\* What GET /api/tags can meet: an error (no connection, timeout, HTTP error
\* status); a list naming the configured model; a list without it but with
\* nomic-embed-text; a list with neither.
TagsOutcomes == {"error", "listed", "fallback", "missing"}
\* What the test request POST /api/embeddings can meet: an error, or an
\* embedding of the served model's dimension. It is not sent when the first
\* request failed.
TestOutcomes(tags, dims) ==
    IF tags = "error" THEN {[kind |-> "unsent", dim |-> 0]}
    ELSE {[kind |-> "error", dim |-> 0]} \cup {[kind |-> "ok", dim |-> d] : d \in dims}

\* _test_connection with a failed test embedding logged and passed over.
TagsReachable(tags, test) == tags # "error"

\* Whether _test_connection returns: neither request raised.
HealthCheckPasses(tags, test) == tags # "error" /\ test.kind = "ok"

\* self.model_name after _test_connection
ModelAfter(tags) == IF tags = "fallback" THEN FallbackModel ELSE ConfiguredModel

\* DimAfter with the mismatch logged and the expected dimension kept.
DimExpected(dim, tags, test) == IF tags = "fallback" THEN DefaultEmbeddingDim ELSE dim

\* self.embedding_dim after _test_connection: the argument, 768 with the
\* fallback model, and in the end the length of the test embedding.
DimAfter(dim, tags, test) ==
    LET expected == IF tags = "fallback" THEN DefaultEmbeddingDim ELSE dim
    IN  IF test.kind = "ok" /\ test.dim # expected THEN test.dim ELSE expected

\* EmbeddingService(ollama_url, model_name, embedding_dim=dim): the fields are
\* set, then _test_connection runs; whatever it raises becomes ConnectionError.
EmbeddingServiceInit(dim, tags, test) ==
    /\ embedder = "none"
    /\ health' = Some([tags |-> tags, test |-> test])
    /\ embedder' = IF HealthCheckPasses(tags, test) THEN "constructed" ELSE "raised"
    /\ model_name' = ModelAfter(tags)
    /\ embedding_dim' = DimAfter(dim, tags, test)
    /\ UNCHANGED <<embed_pc, texts, embed_batch_size, batch_num, all_embeddings,
                   batch_embeddings, futures, future_to_index, responses, batch_origin,
                   all_origin, overtaken>>


\* text[:1000], the prompt of encode
EncodePrompt(text) == Text(text.id, Min(text.len, PromptLimit))

EncodeIdle ==
    /\ encode_response = None
    /\ encode_ret = None
    /\ encode_exc = None

\* encode(text): one synchronous request. A status other than 200 is raised
\* as an Exception inside the try; the except branch logs whatever was raised
\* and returns np.zeros(self.embedding_dim).
Encode(text) ==
    /\ embedder = "constructed"
    /\ embed_pc = "idle"
    /\ \E r \in OllamaPost(EncodePrompt(text), embedding_dim) :
          /\ encode_response' = Some(r)
          /\ encode_ret' = Some(IF r.kind = "ok"
                                THEN _normalize_embedding(NanToNum(Val(r.embedding)))
                                ELSE Zeros(embedding_dim))
    /\ encode_exc' = None
    /\ embed_pc' = "encoded"
    /\ UNCHANGED <<embedding_dim, texts, embed_batch_size, batch_num, all_embeddings,
                   batch_embeddings, futures, future_to_index, responses, batch_origin,
                   all_origin, overtaken>>

\* --------------------------------------------------- PropertyVectorBuilder
\* def get_property_ids(self, batch_size: int = 10_000)
DefaultPageSize == 10000

\* def get_validated_properties_for_vectordb(self, limit=None)
get_validated_properties_for_vectordb_params == {"limit"}

\* Python's binding of a call's keyword arguments to the callee's parameters:
\* a keyword the callee does not declare raises TypeError before its body runs.
BindKeywords(params, keywords) ==
    IF keywords \subseteq params THEN None ELSE Some("TypeError")

\* ----------------------------------------------------- TextPreprocessor
\* The fields create_searchable_text reads, in the order it writes them.
TextFields == <<"title", "address", "description", "location", "property_type">>

\* clean_arabic_text: "" for None or "", else the text cleaned and stripped.
clean_arabic_text(x) == IF IsNone(x) THEN Str(0, 0) ELSE Strip(Val(x))

\* property_data.get('location', '').lower() raises AttributeError on None.
PreprocessRaises(prop) == IsNone(prop.location)

RECURSIVE JsonLen(_, _)
\* The length of the members json.dumps writes for the fields from position
\* k on: "key": "value", joined by ", "; a field cleaned to "" is left out.
JsonLen(prop, k) ==
    IF k > Len(TextFields) THEN 0
    ELSE LET v == clean_arabic_text(prop[TextFields[k]])
             rest == JsonLen(prop, k + 1)
         IN  IF StrLen(v) = 0 THEN rest
             ELSE Len(TextFields[k]) + StrLen(v) + 6 + (IF rest > 0 THEN 2 ELSE 0) + rest

\* len(create_searchable_text(prop)): json.dumps of the cleaned fields.
SearchableTextLen(prop) == 2 + JsonLen(prop, 1)

\* --------------------------------------------------- transform_properties
\* def encode_batch(self, texts, normalize=True, batch_size=100)
encode_batch_params == {"texts", "normalize", "batch_size"}

TransformIdle ==
    /\ transform_pc = "idle"
    /\ t_properties = <<>>
    /\ fetched = <<>>
    /\ t_embed_batch_size = 1
    /\ valid_props = <<>>
    /\ t_texts = <<>>
    /\ transform_ret = None
    /\ transform_exc = None

\* Whether the preparation loop keeps a record: its text is built without an
\* exception and is at least TextMinLen characters long.
KeepsRecord(prop) == ~PreprocessRaises(prop) /\ SearchableTextLen(prop) >= TextMinLen

RECURSIVE KeptPositions(_, _)
\* valid_props, as positions, from position k on.
KeptPositions(props, k) ==
    IF k > Len(props) THEN <<>>
    ELSE (IF KeepsRecord(props[k]) THEN <<k>> ELSE <<>>) \o KeptPositions(props, k + 1)

\* transform_properties(props, size) is called: the preparation loop, and
\* the return of [] when no text was kept.
TransformCall(props, size) ==
    /\ transform_pc = "idle"
    /\ t_properties' = props
    /\ fetched' = props
    /\ t_embed_batch_size' = size
    /\ LET kept == KeptPositions(props, 1)
       IN  /\ valid_props' = kept
           /\ t_texts' = [j \in 1..Len(kept) |->
                             Text(kept[j], SearchableTextLen(props[kept[j]]))]
           /\ transform_pc' = IF kept = <<>> THEN "returned" ELSE "embed"
           /\ transform_ret' = IF kept = <<>> THEN Some(<<>>) ELSE None
    /\ transform_exc' = None

\* self.embedder.encode_batch(texts, is_query=False, batch_size=..., normalize=True):
\* the call is outside any try. encode_batch runs, and the loop attaching
\* text and embedding to the records after it, from "embedding" only.
TransformEmbed ==
    /\ transform_pc = "embed"
    /\ LET bound == BindKeywords(encode_batch_params,
                                 {"texts", "is_query", "batch_size", "normalize"})
       IN  /\ transform_exc' = bound
           /\ transform_pc' = IF IsNone(bound) THEN "embedding" ELSE "raised"
    /\ UNCHANGED <<t_properties, fetched, t_embed_batch_size, valid_props, t_texts,
                   transform_ret>>

BuildIdle == bigquery_client = FALSE /\ builder = "none"

\* Milvus_VectorDatabase.connect(): MilvusClient(uri=...) returns and
\* self.client is set, or it raises, ConnectionError is raised from it and
\* self.client stays None.
MilvusConnect ==
    /\ builder = "none"
    /\ ~milvus_client
    /\ milvus_client' \in BOOLEAN
    /\ UNCHANGED <<collection_dim, store, bigquery_client, builder>>

\* Big_Query_Database.connect(): bigquery.Client(...) returns and self.client
\* is set, or it raises and self.client stays None.
BigQueryConnect ==
    /\ builder = "none"
    /\ ~bigquery_client
    /\ bigquery_client' \in BOOLEAN
    /\ UNCHANGED <<milvus_vars, builder>>

\* The constructor's checks with the one on the vector store left out.
RdbmsConnected(rdbms, vectordb) == rdbms

\* rdbms_client.client is not None, and vectordb_client.client is not None.
ClientsConnected(rdbms, vectordb) == rdbms /\ vectordb

\* PropertyVectorBuilder(rdbms_client, vectordb_client, ...): ConnectionError
\* when either client is None.
BuildPipeline ==
    /\ builder = "none"
    /\ builder' = IF ClientsConnected(bigquery_client, milvus_client)
                  THEN "constructed" ELSE "raised"
    /\ UNCHANGED <<milvus_vars, bigquery_client>>

RunIdle ==
    /\ run_pc = "idle"
    /\ runs = 0
    /\ vectodb_ids = None
    /\ run_exc = None
    /\ run_ret = None
    /\ validation_failures = None

\* process_store_to_vdb() is called; its first statement calls
\* self.vectordb_client.get_property_ids() with the default page size.
RunCall ==
    /\ builder = "constructed"
    /\ run_pc \in {"idle", "raised"}
    /\ runs < MaxRuns
    /\ runs' = runs + 1
    /\ run_pc' = "enumerate"
    /\ vectodb_ids' = None
    /\ run_exc' = None
    /\ run_ret' = None
    /\ UNCHANGED validation_failures
    /\ GetIdsCall(DefaultPageSize)

\* get_property_ids raised: nothing in the run catches it.
RunEnumerateRaised ==
    /\ run_pc = "enumerate"
    /\ ids_pc = "raised"
    /\ run_pc' = "raised"
    /\ run_exc' = Some(IF milvus_client THEN "MilvusException" ELSE "RuntimeError")
    /\ UNCHANGED <<runs, vectodb_ids, run_ret, validation_failures>>

\* vectodb_ids = get_property_ids(); then the call
\* get_validated_properties_for_vectordb(limit=limit, exclude_ids=vectodb_ids).
\* The body of the callee, and the statements of the run after the call, are
\* entered from "fetched" only.
RunFetch ==
    /\ run_pc = "enumerate"
    /\ ids_pc = "returned"
    /\ vectodb_ids' = ids_ret
    /\ LET bound == BindKeywords(get_validated_properties_for_vectordb_params,
                                 {"limit", "exclude_ids"})
       IN  /\ run_exc' = bound
           /\ run_pc' = IF IsNone(bound) THEN "fetched" ELSE "raised"
    /\ UNCHANGED <<runs, run_ret, validation_failures>>

\* ------------------------------------------------------- specifications
\* A row already in the collection under the k-th identifier: an earlier
\* version of the listing, its embedding of the collection's dimension.
StoredRow(k, dim) ==
    model_dump([GoodProp(k) EXCEPT !.embedding = Some(GoodEmbedding(dim, k)),
                                   !.title = Some(Str(15, 0))])

\* The records drawn for position p of a list handed to insert_properties:
\* valid, valid with an embedding of another length than the collection's,
\* with the zero embedding of a failed request, with an area out of range
\* and no identifier.
InsertVariants(p) ==
    << GoodProp(p),
       [GoodProp(p) EXCEPT !.embedding = Some(GoodEmbedding(EmbMinLen, p))],
       [GoodProp(p) EXCEPT !.embedding = Some(Zeros(DefaultEmbeddingDim))],
       [GoodProp(p) EXCEPT !.area_sqm = Some(AreaFloor * Scale),
                           !.property_id = None] >>
InsertInputs ==
    UNION { {[p \in 1..n |-> InsertVariants(p)[f[p]]] :
                f \in [1..n -> DOMAIN InsertVariants(1)]} : n \in 0..MaxProps }

RestIdle == EncodeIdle /\ BuildIdle /\ ServiceIdle /\ TransformIdle

vars == <<milvus_vars, validate_vars, insert_vars, ids_vars, embed_vars, run_vars, rest_vars>>

\* The validator alone: a record is drawn and PropertyVectorsModel is built.
InitValidate ==
    /\ candidate \in {Some(p) : p \in ValidatorInputs}
    /\ verdict = None
    /\ milvus_client = TRUE
    /\ collection_dim = DefaultEmbeddingDim
    /\ store = {}
    /\ InsertIdle
    /\ IdsIdle
    /\ EmbedIdle
    /\ RunIdle
    /\ RestIdle
    /\ mart = {}
    /\ mart_row = None
NextValidate == Construct
SpecValidate == InitValidate /\ [][NextValidate]_vars

\* insert_properties called once on a collection that may hold a row.
InitInsert ==
    /\ milvus_client \in BOOLEAN
    /\ collection_dim = DefaultEmbeddingDim
    /\ store \in {{}, {StoredRow(1, collection_dim)}}
    /\ ValidateIdle
    /\ InsertIdle
    /\ IdsIdle
    /\ EmbedIdle
    /\ RunIdle
    /\ RestIdle
    /\ mart = {}
    /\ mart_row = None
NextInsert ==
    \/ \E props \in InsertInputs, size \in 1..MaxProps : InsertCall(props, size)
    \/ ValidateBatch
    \/ UpsertReturns
    \/ UpsertRaises
    \/ InsertReturn
    \/ Interrupt
SpecInsert == InitInsert /\ [][NextInsert]_vars

\* The collections get_property_ids is run on: any set of rows written earlier.
Collections(dim) == {{StoredRow(k, dim) : k \in K} : K \in SUBSET (1..NumIds)}

\* get_property_ids called once, with any page size, no writer beside it.
InitEnum ==
    /\ milvus_client \in BOOLEAN
    /\ collection_dim = DefaultEmbeddingDim
    /\ store \in Collections(collection_dim)
    /\ ValidateIdle
    /\ InsertIdle
    /\ IdsIdle
    /\ EmbedIdle
    /\ RunIdle
    /\ RestIdle
    /\ mart = {}
    /\ mart_row = None
NextEnum ==
    \/ \E size \in 1..MaxPage :
          GetIdsCall(size) /\ UNCHANGED <<milvus_vars, validate_vars, insert_vars, embed_vars, run_vars, rest_vars>>
    \/ GetIdsPage /\ UNCHANGED <<milvus_vars, validate_vars, insert_vars, embed_vars, run_vars, rest_vars>>
    \/ GetIdsRaises /\ UNCHANGED <<milvus_vars, validate_vars, insert_vars, embed_vars, run_vars, rest_vars>>
    \/ GetIdsReturn /\ UNCHANGED <<milvus_vars, validate_vars, insert_vars, embed_vars, run_vars, rest_vars>>
SpecEnum == InitEnum /\ [][NextEnum]_vars

\* The same, the call running to its end: get_property_ids is sequential
\* code, so a loop turn that can be taken is taken (unless the query raises),
\* and the return statement after the loop is executed.
SpecEnumLive ==
    /\ SpecEnum
    /\ WF_vars(GetIdsPage /\ UNCHANGED <<milvus_vars, validate_vars, insert_vars, embed_vars, run_vars, rest_vars>>)
    /\ WF_vars(GetIdsReturn /\ UNCHANGED <<milvus_vars, validate_vars, insert_vars, embed_vars, run_vars, rest_vars>>)

\* Another process upserts the row of the k-th identifier while the loop of
\* get_property_ids is between two of its queries.
ConcurrentUpsert(k) ==
    /\ ids_pc = "loop"
    /\ store' = Upserted(store, <<StoredRow(k, collection_dim)>>)
    /\ UNCHANGED <<milvus_client, collection_dim, validate_vars, insert_vars, ids_vars,
                   embed_vars, run_vars, rest_vars>>

\* get_property_ids paginating while other processes write to the collection.
NextEnumWriters ==
    \/ NextEnum
    \/ \E k \in 1..NumIds : ConcurrentUpsert(k)
SpecEnumWriters == InitEnum /\ [][NextEnumWriters]_vars

\* Lengths of the texts embedded: under and over the prompt limit.
TextLens == <<60, PromptLimit + 200>>
\* The lists encode_batch is called with: n distinct texts, short and long.
TextInputs ==
    {[p \in 1..n |-> Text(p, TextLens[1 + (p % 2)])] : n \in 0..MaxTexts}

\* encode_batch called once, with any batch size, against a provider that may
\* fail any request.
InitEmbed ==
    /\ milvus_client = TRUE
    /\ collection_dim = DefaultEmbeddingDim
    /\ store = {}
    /\ ValidateIdle
    /\ InsertIdle
    /\ IdsIdle
    /\ EmbedIdle
    /\ RunIdle
    /\ RestIdle
    /\ mart = {}
    /\ mart_row = None
\* The dimensions the constructor is given and the served model has.
ServiceDims == {EmbMinLen, DefaultEmbeddingDim}
NextEmbed ==
    \/ \E dim \in ServiceDims, tags \in TagsOutcomes :
          \E test \in TestOutcomes(tags, ServiceDims) :
              /\ EmbeddingServiceInit(dim, tags, test)
              /\ UNCHANGED <<milvus_vars, validate_vars, insert_vars, ids_vars, run_vars,
                             encode_vars, build_vars, source_vars, transform_vars>>
    \/ \E txts \in TextInputs, size \in 1..MaxTexts :
          EncodeBatchCall(txts, size) /\ UNCHANGED <<milvus_vars, validate_vars, insert_vars, ids_vars, run_vars, rest_vars>>
    \/ BeginBatch /\ UNCHANGED <<milvus_vars, validate_vars, insert_vars, ids_vars, run_vars, rest_vars>>
    \/ Submit /\ UNCHANGED <<milvus_vars, validate_vars, insert_vars, ids_vars, run_vars, rest_vars>>
    \/ \E f \in DOMAIN futures :
          WorkerStart(f) /\ UNCHANGED <<milvus_vars, validate_vars, insert_vars, ids_vars, run_vars, rest_vars>>
    \/ \E f \in DOMAIN futures :
          RequestSucceeds(f) /\ UNCHANGED <<milvus_vars, validate_vars, insert_vars, ids_vars, run_vars, rest_vars>>
    \/ \E f \in DOMAIN futures :
          RequestRefused(f) /\ UNCHANGED <<milvus_vars, validate_vars, insert_vars, ids_vars, run_vars, rest_vars>>
    \/ \E f \in DOMAIN futures :
          RequestRaises(f) /\ UNCHANGED <<milvus_vars, validate_vars, insert_vars, ids_vars, run_vars, rest_vars>>
    \/ \E f \in DOMAIN futures :
          Collect(f) /\ UNCHANGED <<milvus_vars, validate_vars, insert_vars, ids_vars, run_vars, rest_vars>>
    \/ EndBatch /\ UNCHANGED <<milvus_vars, validate_vars, insert_vars, ids_vars, run_vars, rest_vars>>
    \/ EncodeBatchReturn /\ UNCHANGED <<milvus_vars, validate_vars, insert_vars, ids_vars, run_vars, rest_vars>>
    \/ \E text \in {Text(1, TextLens[k]) : k \in DOMAIN TextLens} :
          Encode(text) /\ UNCHANGED <<milvus_vars, validate_vars, insert_vars, ids_vars, run_vars, build_vars, service_vars, source_vars, transform_vars>>
SpecEmbed == InitEmbed /\ [][NextEmbed]_vars

\* A row as the fetch query returns it: the columns it selects.
Candidate(k) ==
    [f \in DOMAIN GoodProp(k) \ {"text", "embedding"} |-> GoodProp(k)[f]]
\* The records drawn for position p of a list handed to transform_properties:
\* complete; with every text field empty; with location NULL.
CandidateVariants(p) ==
    << Candidate(p),
       [Candidate(p) EXCEPT !.title = Some(Str(0, 2)), !.address = None,
                            !.description = Some(Str(0, 0)),
                            !.location = Some(Str(0, 0)),
                            !.property_type = Some(Str(0, 0))],
       [Candidate(p) EXCEPT !.location = None] >>
TransformInputs ==
    UNION { {[p \in 1..n |-> CandidateVariants(p)[f[p]]] :
                f \in [1..n -> DOMAIN CandidateVariants(1)]} : n \in 0..MaxProps }

\* transform_properties called once on a list of fetched records.
InitTransform ==
    /\ milvus_client = TRUE
    /\ collection_dim = DefaultEmbeddingDim
    /\ store = {}
    /\ ValidateIdle
    /\ InsertIdle
    /\ IdsIdle
    /\ EmbedIdle
    /\ RunIdle
    /\ RestIdle
    /\ mart = {}
    /\ mart_row = None
NextTransform ==
    \/ \E props \in TransformInputs, size \in 1..MaxTexts :
          /\ TransformCall(props, size)
          /\ UNCHANGED <<milvus_vars, validate_vars, insert_vars, ids_vars, embed_vars,
                         run_vars, encode_vars, build_vars, service_vars, source_vars>>
    \/ /\ TransformEmbed
       /\ UNCHANGED <<milvus_vars, validate_vars, insert_vars, ids_vars, embed_vars,
                      run_vars, encode_vars, build_vars, service_vars, source_vars>>
SpecTransform == InitTransform /\ [][NextTransform]_vars

\* ------------------------------------------------------ create_mart_table
\* The bounds of the CASE expressions of the mart build.
MartPriceCeil == 1000000000
MartMaxBedrooms == 20
MartMaxBathrooms == 15
MartAreaMin == 10
MartAreaMax == 10000
MartLatMin == 27
MartLatMax == 33
MartLonMin == 24
MartLonMax == 34
\* LENGTH(description_cleaned) > 20
HasDescriptionLen == 20
\* The bounds of the quality filters of the fetch query.
FetchPriceFloor == 1000
FetchAreaMin == 10
FetchMaxBedrooms == 25
FetchMaxBathrooms == 15
FetchTitleLen == 3
FetchDescriptionLen == 10

\* CASE WHEN x BETWEEN lo AND hi THEN x ELSE NULL END
BetweenOrNull(x, lo, hi) ==
    IF ~IsNone(x) /\ Val(x) >= lo /\ Val(x) <= hi THEN x ELSE None
\* TRIM(COALESCE(x, 'unknown'))
TrimCoalesce(x) == IF IsNone(x) THEN Some(Str(7, 0)) ELSE Some(Strip(Val(x)))
\* TRIM(REGEXP_REPLACE(... COALESCE(x, '') ...)): never NULL. The texts drawn
\* hold no character the substitutions rewrite, so the TRIM is what acts.
TrimCleaned(x) == IF IsNone(x) THEN Some(Str(0, 0)) ELSE Some(Strip(Val(x)))

\* The row the mart build writes for a raw row: the cleaned_text columns,
\* then the flags has_description and data_quality of the enriched step.
MartRow(raw) ==
    LET price == IF ~IsNone(raw.price_egp) /\ Val(raw.price_egp) > 0
                      /\ Val(raw.price_egp) < MartPriceCeil
                 THEN raw.price_egp ELSE None
        area == BetweenOrNull(raw.area_sqm, MartAreaMin * Scale, MartAreaMax * Scale)
        lat == BetweenOrNull(raw.latitude, MartLatMin * Scale, MartLatMax * Scale)
        lon == BetweenOrNull(raw.longitude, MartLonMin * Scale, MartLonMax * Scale)
        floor == BetweenOrNull(raw.floor_number, MinFloor, MaxFloor)
        description == TrimCleaned(raw.description)
    IN  [ property_id   |-> raw.property_id,
          source        |-> raw.source,
          url           |-> raw.url,
          title         |-> TrimCleaned(raw.title),
          description   |-> description,
          address       |-> TrimCleaned(raw.address),
          property_type |-> TrimCoalesce(raw.property_type),
          listing_type  |-> TrimCoalesce(raw.listing_type),
          location      |-> TrimCoalesce(raw.location),
          price_egp     |-> price,
          bedrooms      |-> BetweenOrNull(raw.bedrooms, 0, MartMaxBedrooms),
          bathrooms     |-> BetweenOrNull(raw.bathrooms, 0, MartMaxBathrooms),
          area_sqm      |-> area,
          floor_number  |-> IF IsNone(floor) THEN Some(0) ELSE floor,
          latitude      |-> lat,
          longitude     |-> lon,
          has_description |-> StrLen(Val(description)) > HasDescriptionLen,
          data_quality  |-> IF ~IsNone(price) /\ ~IsNone(area) /\ ~IsNone(lat)
                               /\ ~IsNone(lon)
                            THEN "complete" ELSE "incomplete" ]

\* The WHERE clause of get_validated_properties_for_vectordb; a comparison
\* with NULL selects nothing.
FetchSelects(row) ==
    /\ row.data_quality = "complete"
    /\ row.has_description
    /\ ~IsNone(row.price_egp) /\ Val(row.price_egp) > FetchPriceFloor
    /\ ~IsNone(row.area_sqm) /\ Val(row.area_sqm) >= FetchAreaMin * Scale
    /\ ~IsNone(row.bedrooms) /\ Val(row.bedrooms) >= 0
         /\ Val(row.bedrooms) <= FetchMaxBedrooms
    /\ ~IsNone(row.bathrooms) /\ Val(row.bathrooms) >= 0
         /\ Val(row.bathrooms) <= FetchMaxBathrooms
    /\ StrLen(Val(row.title)) >= FetchTitleLen
    /\ StrLen(Val(row.description)) >= FetchDescriptionLen

\* The record the fetch returns for a row of the mart (its SELECT list), as
\* it reaches the validator: with a searchable text and an embedding.
FetchedRecord(row) ==
    [f \in DOMAIN GoodProp(1) |->
        IF f \in {"text", "embedding"} THEN GoodProp(1)[f] ELSE row[f]]

\* create_mart_table runs over a raw row.
CreateMartTable(raw) ==
    /\ mart_row = None
    /\ mart_row' = Some(MartRow(raw))
    /\ UNCHANGED <<mart, milvus_vars, validate_vars, insert_vars, ids_vars, embed_vars,
                   run_vars, encode_vars, build_vars, service_vars, transform_vars>>

\* The fetch query selects the row; the record is handed to the validator.
FetchValidated ==
    /\ mart_row # None
    /\ candidate = None
    /\ FetchSelects(Val(mart_row))
    /\ candidate' = Some(FetchedRecord(Val(mart_row)))
    /\ UNCHANGED <<verdict, milvus_vars, insert_vars, ids_vars, embed_vars, run_vars,
                   rest_vars>>

\* The raw rows drawn: latitude, longitude and area at and beside every bound
\* of the mart build and of the validator, and each other number at and
\* beside its bounds.
RawRows ==
    LET base == Candidate(1)
        around(S) == UNION {{Some(b - 1), Some(b), Some(b + 1)} : b \in S}
    IN  { [base EXCEPT !.latitude = lat, !.longitude = lon, !.area_sqm = a] :
            lat \in around({MartLatMin * Scale, LatMax * Scale, MartLatMax * Scale}),
            lon \in around({MartLonMin * Scale, LonMin * Scale, MartLonMax * Scale}),
            a \in {Some(MartAreaMin * Scale - 1), Some(MartAreaMin * Scale),
                   Some(MartAreaMax * Scale)} }
        \cup { [base EXCEPT !.price_egp = x] :
                 x \in around({FetchPriceFloor, MartPriceCeil - 1}) \cup {None} }
        \cup { [base EXCEPT !.bedrooms = x] :
                 x \in around({0, MartMaxBedrooms, FetchMaxBedrooms}) \cup {None} }
        \cup { [base EXCEPT !.bathrooms = x] :
                 x \in around({0, MartMaxBathrooms}) \cup {None} }
        \cup { [base EXCEPT !.floor_number = x] :
                 x \in around({MinFloor, MaxFloor}) \cup {None} }
        \cup { [base EXCEPT !.area_sqm = x] :
                 x \in around({MartAreaMax * Scale}) \cup {None} }

\* A raw row goes through the mart build, the fetch query and the validator.
InitMart ==
    /\ milvus_client = TRUE
    /\ collection_dim = DefaultEmbeddingDim
    /\ store = {}
    /\ ValidateIdle
    /\ InsertIdle
    /\ IdsIdle
    /\ EmbedIdle
    /\ RunIdle
    /\ RestIdle
    /\ mart = {}
    /\ mart_row = None
NextMart ==
    \/ \E raw \in RawRows : CreateMartTable(raw)
    \/ FetchValidated
    \/ Construct
SpecMart == InitMart /\ [][NextMart]_vars

\* process_store_to_vdb run again and again on a collection left by earlier
\* writes, over any mart, the source dataset unchanged from run to run.
Init ==
    /\ milvus_client = FALSE
    /\ collection_dim = DefaultEmbeddingDim
    /\ store \in Collections(collection_dim)
    /\ ValidateIdle
    /\ InsertIdle
    /\ IdsIdle
    /\ EmbedIdle
    /\ RunIdle
    /\ RestIdle
    /\ mart \in SUBSET (1..NumIds)
    /\ mart_row = None
Next ==
    \/ MilvusConnect /\ UNCHANGED <<validate_vars, insert_vars, ids_vars, embed_vars, run_vars, encode_vars, service_vars, source_vars, transform_vars>>
    \/ BigQueryConnect /\ UNCHANGED <<validate_vars, insert_vars, ids_vars, embed_vars, run_vars, encode_vars, service_vars, source_vars, transform_vars>>
    \/ BuildPipeline /\ UNCHANGED <<validate_vars, insert_vars, ids_vars, embed_vars, run_vars, encode_vars, service_vars, source_vars, transform_vars>>
    \/ RunCall /\ UNCHANGED <<milvus_vars, validate_vars, insert_vars, embed_vars, rest_vars>>
    \/ /\ run_pc = "enumerate"
       /\ GetIdsPage
       /\ UNCHANGED <<milvus_vars, validate_vars, insert_vars, embed_vars, run_vars, rest_vars>>
    \/ /\ run_pc = "enumerate"
       /\ GetIdsRaises
       /\ UNCHANGED <<milvus_vars, validate_vars, insert_vars, embed_vars, run_vars, rest_vars>>
    \/ /\ run_pc = "enumerate"
       /\ GetIdsReturn
       /\ UNCHANGED <<milvus_vars, validate_vars, insert_vars, embed_vars, run_vars, rest_vars>>
    \/ RunEnumerateRaised /\ UNCHANGED <<milvus_vars, validate_vars, insert_vars, embed_vars, ids_vars, rest_vars>>
    \/ RunFetch /\ UNCHANGED <<milvus_vars, validate_vars, insert_vars, embed_vars, ids_vars, rest_vars>>
Spec == Init /\ [][Next]_vars

\* ---------------------------------------------------------------- claims
Accepted == verdict # None /\ Val(verdict) = {}
Rejected == verdict # None /\ Val(verdict) # {}
\* The fields of the candidate other than f validate.
OthersValid(f) == verdict # None /\ \A e \in Val(verdict) : e[1] = f

RECURSIVE SumLen(_, _)
\* The number of records in the upsert calls whose raised flag is flag.
SumLen(calls, flag) ==
    IF calls = <<>> THEN 0
    ELSE (IF calls[1].raised = flag THEN Len(calls[1].positions) ELSE 0)
             + SumLen(Tail(calls), flag)
AllValid(props) == \A p \in 1..Len(props) : Validates(props[p])
Returned == insert_pc = "returned" /\ insert_ret # None

\* C5: partial-failure isolation. When every record handed to
\* insert_properties is valid and the upsert of some batches raises, the call
\* still returns a summary: every batch was sent in its own upsert call, in
\* order and whole; each record of a batch whose upsert raised is in
\* failed_records with the insert error as reason, and no other record is;
\* inserted is the total size of the batches whose upsert returned, failed the
\* total size of those whose upsert raised. A connected client never raises.
C5_PartialFailureIsolation ==
    /\ milvus_client => insert_pc # "raised"
    /\ (Returned /\ properties # <<>> /\ AllValid(properties)) =>
        LET ret == Val(insert_ret)
            n == Len(properties)
        IN  /\ Len(upsert_calls) = TotalBatches(n, batch_size)
            /\ \A b \in 1..Len(upsert_calls) :
                  /\ upsert_calls[b].batch_num = b
                  /\ upsert_calls[b].positions =
                        [j \in 1..(Min(b * batch_size, n) - (b - 1) * batch_size)
                            |-> (b - 1) * batch_size + j]
                  /\ upsert_calls[b].raised =>
                        \A j \in 1..Len(upsert_calls[b].positions) :
                            \E r \in 1..Len(ret.failed_records) :
                                /\ ret.failed_records[r].kind = "insert"
                                /\ ret.failed_records[r].property_id =
                                     model_dump(properties[upsert_calls[b].positions[j]]).property_id
            /\ \A r \in 1..Len(ret.failed_records) : ret.failed_records[r].kind = "insert"
            /\ ret.inserted = SumLen(upsert_calls, FALSE)
            /\ ret.failed = SumLen(upsert_calls, TRUE)
            /\ ret.failed = Len(ret.failed_records)
            /\ ret.total = n
\* Three batches of one valid record, the second upsert raising, the first
\* and third returning.
C5_Witness ==
    /\ Returned
    /\ Len(properties) = 3 /\ batch_size = 1 /\ AllValid(properties)
    /\ Len(upsert_calls) = 3
    /\ ~upsert_calls[1].raised /\ upsert_calls[2].raised /\ ~upsert_calls[3].raised
    /\ Val(insert_ret).inserted = 2 /\ Val(insert_ret).failed = 1

\* C6: only validated records reach the store. The payload of every upsert
\* call is the model_dump of records of the list handed to this call that
\* PropertyVectorsModel accepted, and the payload about to be sent is too; a
\* record the validator rejected is in no payload.
C6_OnlyValidatedUpserted ==
    /\ \A c \in 1..Len(upsert_calls) :
          \A j \in 1..Len(upsert_calls[c].positions) :
              /\ upsert_calls[c].positions[j] \in 1..Len(properties)
              /\ Validates(properties[upsert_calls[c].positions[j]])
    /\ upsert_calls # <<>> =>
          upsert_payload =
              [ j \in 1..Len(upsert_calls[Len(upsert_calls)].positions) |->
                  model_dump(properties[upsert_calls[Len(upsert_calls)].positions[j]]) ]
    /\ insert_pc = "upsert" =>
          /\ Len(batch_validated) = Len(batch_positions)
          /\ \A j \in 1..Len(batch_validated) :
                /\ Validates(properties[batch_positions[j]])
                /\ batch_validated[j] = model_dump(properties[batch_positions[j]])
\* An upsert call whose batch held a rejected record beside the accepted ones.
C6_Witness ==
    /\ upsert_calls # <<>>
    /\ batch_size = 2
    /\ upsert_calls[1].positions = <<2>>
    /\ ~Validates(properties[1])
    /\ store # {}

\* Whether the embedding of a record is a zero vector.
ZeroEmbedding(prop) == ~IsNone(prop.embedding) /\ Val(prop.embedding).mag = 0
\* C9: zero-vector rejection. A record whose embedding is all zero, of an
\* accepted length and with every other field valid, is rejected for the
\* zero vector alone; it is in no upsert payload, and once the call has
\* returned it is in failed_records with that reason.
C9_ZeroVectorRejected ==
    \A p \in 1..Len(properties) :
        ZeroEmbedding(properties[p]) =>
            /\ (Val(properties[p].embedding).len \in EmbMinLen..EmbMaxLen =>
                  <<"embedding", "Embedding cannot be zero vector">>
                      \in ValidationErrors(properties[p]))
            /\ ~Validates(properties[p])
            /\ \A c \in 1..Len(upsert_calls) :
                  \A j \in 1..Len(upsert_calls[c].positions) :
                      upsert_calls[c].positions[j] # p
            /\ \A r \in store : r.embedding # properties[p].embedding
            /\ Returned =>
                  \E r \in 1..Len(Val(insert_ret).failed_records) :
                      /\ Val(insert_ret).failed_records[r].property_id
                            = GetPropertyId(properties[p])
                      /\ Val(insert_ret).failed_records[r].kind = "validation"
                      /\ Val(insert_ret).failed_records[r].error
                            = {<<"embedding", "Embedding cannot be zero vector">>}
\* A call that returned after upserting a record whose neighbour in the same
\* batch carried the zero vector of the configured dimension.
C9_Witness ==
    /\ Returned
    /\ Len(properties) = 2 /\ batch_size = 2
    /\ properties[1].embedding = Some(Zeros(DefaultEmbeddingDim))
    /\ Validates(properties[2])
    /\ Val(insert_ret).inserted = 1 /\ Val(insert_ret).failed = 1

\* C8: validation boundary on area. With every other field valid the
\* validator accepts area_sqm exactly when 10 <= area_sqm <= 10000.
C8_AreaRangeFromTen ==
    OthersValid("area_sqm") =>
        (Accepted <=>
            /\ ~IsNone(Val(candidate).area_sqm)
            /\ Val(Val(candidate).area_sqm) >= 10 * Scale
            /\ Val(Val(candidate).area_sqm) <= 10000 * Scale)

\* C10: embedding dimension invariant. A record the validator accepts has an
\* embedding of exactly the configured dimension.
C10_AcceptedHasConfiguredDim ==
    Accepted => Val(Val(candidate).embedding).len = collection_dim

\* C4: dedup correctness of the enumerator. When get_property_ids returns,
\* with no writer beside it, the list returned holds exactly the identifiers
\* of the collection, each once, ascending; every row was fetched once, in a
\* page of at most the page size, and only the last page is short.
C4_EnumeratesExactly ==
    ids_pc = "returned" =>
        LET ret == Val(ids_ret)
        IN  /\ {ret[j] : j \in 1..Len(ret)} = StoreIds(store)
            /\ Len(ret) = Cardinality(StoreIds(store))
            /\ \A j \in 1..(Len(ret) - 1) : StrLess(ret[j], ret[j + 1])
            /\ total_fetched = Cardinality(StoreIds(store))
            /\ \A q \in 1..Len(pages) :
                  /\ Len(pages[q]) <= ids_batch_size
                  /\ q < Len(pages) => Len(pages[q]) = ids_batch_size
\* Three identifiers delivered as the pages [a, b], [c] of size 2.
C4_Witness ==
    /\ ids_pc = "returned"
    /\ ids_batch_size = 2
    /\ Cardinality(StoreIds(store)) = 3
    /\ Len(pages) = 2 /\ Len(pages[1]) = 2 /\ Len(pages[2]) = 1
    /\ Len(Val(ids_ret)) = 3

\* The texts whose request did not end with status 200.
FailedTexts == {k \in DOMAIN responses : responses[k].kind \in {"status", "exception"}}
\* C2: positional integrity under failures. encode_batch never raises for a
\* failed request: once it has returned, it has returned exactly one vector
\* per text, each of the embedder's dimension; the vector at the index of a
\* text whose request failed is all zero, and the vector at every other
\* index is the provider's vector for the prompt of the text at that index,
\* brought to unit length (all zero when the provider answered with NaN).
C2_PositionalIntegrityUnderFailures ==
    embed_pc = "returned" =>
        /\ Len(all_embeddings) = Len(texts)
        /\ \A k \in 1..Len(texts) :
              /\ all_embeddings[k].len = embedding_dim
              /\ k \in FailedTexts => all_embeddings[k] = Zeros(embedding_dim)
              /\ k \notin FailedTexts =>
                    /\ responses[k].kind = "ok"
                    /\ all_embeddings[k] \in
                          { Vec(embedding_dim, PromptKey(Prompt(texts[k])), 1),
                            Zeros(embedding_dim) }
                    /\ all_embeddings[k] = Zeros(embedding_dim)
                          <=> Val(responses[k].embedding).nan
\* Three texts returned, the request of the second failed, the others not.
C2_Witness ==
    /\ embed_pc = "returned"
    /\ Len(texts) = 3
    /\ FailedTexts = {2}
    /\ all_embeddings[2] = Zeros(embedding_dim)
    /\ all_embeddings[1].mag = 1 /\ all_embeddings[3].mag = 1

\* C3: order preservation. In whatever order the requests of a batch
\* complete, every result is written at the index of the text it was
\* computed for: in the batch in progress and in all_embeddings alike, slot
\* k holds the result of the request made for text k, and the list returned
\* has one entry per text.
C3_OrderPreserved ==
    /\ \A j \in 1..Len(batch_origin) :
          (embed_pc \in {"collect", "fill"} /\ batch_origin[j] # 0) =>
              /\ batch_origin[j] = BatchStart + j
              /\ batch_embeddings[j] =
                    Some(_encode_single(responses[BatchStart + j], embedding_dim))
    /\ \A k \in 1..Len(all_embeddings) :
          /\ all_origin[k] = k
          /\ responses[k].prompt = Prompt(texts[k])
          /\ all_embeddings[k] = _encode_single(responses[k], embedding_dim)
    /\ embed_pc = "returned" => Len(all_origin) = Len(texts)
\* A call has returned in which a later text's result was collected before an
\* earlier one's, both with status 200: the two vectors differ and each is at
\* its own index.
C3_Witness ==
    /\ embed_pc = "returned"
    /\ overtaken
    /\ Len(texts) >= 2
    /\ FailedTexts = {}
    /\ \A k \in 1..Len(texts) : all_embeddings[k].dir = PromptKey(Prompt(texts[k]))

\* The summary of a run that found nothing to process.
ZeroSummary == [total |-> 0, inserted |-> 0, failed |-> 0]
\* C1: idempotence. A second run of process_store_to_vdb, the source dataset
\* unchanged since the first, whose enumeration of the collection returned,
\* ends by returning the summary with total = 0.
C1_SecondRunProcessesNothing ==
    (runs = 2 /\ run_pc \in {"fetched", "raised"} /\ ~IsNone(vectodb_ids)) =>
        run_ret = Some(ZeroSummary)

\* C7: no already-indexed record is processed again. The fetch stage takes the
\* list the enumerator returned as the identifiers to leave out: the call
\* that hands it over is accepted.
C7_FetchTakesExclusionSet ==
    ~IsNone(vectodb_ids) => (run_pc = "fetched" /\ IsNone(run_exc))

\* The validation loop of write-batch b has run and its upsert is about to be called.
BatchAtUpsert(b) == insert_pc = "upsert" /\ i = (b - 1) * batch_size
\* Write-batch b is behind the loop.
BatchDone(b) ==
    insert_pc \in {"validate", "upsert", "finish", "returned"} /\ i >= b * batch_size
\* C11: a single invalid record does not abort its batch. Once the validation
\* loop has run over a write-batch, every record of it that failed validation
\* is in failed_records with its identifier and the validation errors as
\* reason, and the records of the batch that passed are, all of them and
\* only they, the payload of that batch's upsert call.
C11_InvalidRecordKeepsBatch ==
    \A b \in 1..TotalBatches(Len(properties), batch_size) :
        LET lo == (b - 1) * batch_size + 1
            hi == Min(b * batch_size, Len(properties))
            valid == {p \in lo..hi : Validates(properties[p])}
        IN  /\ (BatchAtUpsert(b) \/ BatchDone(b)) =>
                  \A p \in (lo..hi) \ valid :
                      \E r \in 1..Len(failed_records) :
                          failed_records[r] =
                              [ property_id |-> GetPropertyId(properties[p]),
                                kind |-> "validation",
                                error |-> ValidationErrors(properties[p]) ]
            /\ BatchAtUpsert(b) =>
                  /\ valid # {}
                  /\ {batch_positions[j] : j \in 1..Len(batch_positions)} = valid
            /\ (BatchDone(b) /\ valid # {}) =>
                  \E c \in 1..Len(upsert_calls) :
                      /\ upsert_calls[c].batch_num = b
                      /\ {upsert_calls[c].positions[j] :
                              j \in 1..Len(upsert_calls[c].positions)} = valid
\* One batch of three records, the second rejected, the first and third sent
\* in the one upsert call, which returned.
C11_Witness ==
    /\ Returned
    /\ Len(properties) = 3 /\ batch_size = 3
    /\ ~Validates(properties[2])
    /\ Len(upsert_calls) = 1
    /\ upsert_calls[1].positions = <<1, 3>> /\ ~upsert_calls[1].raised
    /\ Val(insert_ret).inserted = 2
    /\ Val(insert_ret).failed_records[1].property_id = GetPropertyId(properties[2])

\* The fields of the summary a run returns.
SummaryFields == {"total", "inserted", "failed", "failed_records"}
\* C12: a summary on every non-fatal path. A run of process_store_to_vdb
\* that is over, and did not end in the enumeration of the collection
\* failing, has returned a summary with the fields total, inserted, failed
\* and failed_records; it has not raised to the caller.
C12_SummaryOnEveryNonFatalPath ==
    (run_pc \in {"raised", "returned"}
        /\ run_exc \notin {Some("MilvusException"), Some("RuntimeError")}) =>
        /\ IsNone(run_exc)
        /\ ~IsNone(run_ret)
        /\ DOMAIN Val(run_ret) = SummaryFields

\* C13: the single-call encode is fatal on error. When the request of
\* encode(text) meets an exception or a status other than 200, encode raises
\* to its caller and returns no vector.
C13_EncodeReraises ==
    (~IsNone(encode_response) /\ Val(encode_response).kind \in {"status", "exception"}) =>
        (~IsNone(encode_exc) /\ IsNone(encode_ret))

\* C14: fatal connectivity errors abort before the enumeration. The builder
\* is constructed only with both clients connected; with either client not
\* connected its construction raises ConnectionError, and then no run is
\* started: no enumeration, no fetch, no embedding request, no upsert call,
\* no summary.
C14_NoRunWithoutClients ==
    /\ builder = "constructed" => (milvus_client /\ bigquery_client)
    /\ runs > 0 => builder = "constructed"
    /\ builder = "raised" =>
          /\ ~(milvus_client /\ bigquery_client)
          /\ runs = 0 /\ run_pc = "idle"
          /\ ids_pc = "idle" /\ pages = <<>>
          /\ IsNone(vectodb_ids)
          /\ embed_pc = "idle" /\ IsNone(encode_response)
          /\ upsert_calls = <<>>
          /\ IsNone(run_ret)
\* The constructor has raised with BigQuery connected and Milvus not.
C14_Witness == builder = "raised" /\ bigquery_client /\ ~milvus_client

\* C15: the embedding client fails fast at construction. Constructing
\* EmbeddingService ends in ConnectionError exactly when the provider could
\* not be reached or the test embedding request failed; then there is no
\* client, and no encode or encode_batch request is ever issued. Every
\* request is issued by a client whose startup check passed.
C15_EmbedderFailsFast ==
    /\ embedder # "none" =>
          (embedder = "raised" <=>
              (Val(health).tags = "error" \/ Val(health).test.kind # "ok"))
    /\ embedder # "constructed" =>
          /\ embed_pc = "idle"
          /\ texts = <<>> /\ responses = <<>> /\ futures = <<>>
          /\ all_embeddings = <<>>
          /\ IsNone(encode_response) /\ IsNone(encode_ret)
\* The provider answered the first request and the test embedding failed.
C15_Witness ==
    /\ embedder = "raised"
    /\ Val(health).tags = "listed"
    /\ Val(health).test.kind = "error"

\* C16: an empty stage short-circuits to the report. A run over a mart with
\* no row for the fetch to select, once it is over and its enumeration has
\* returned, has returned a summary with total = 0, inserted = 0 and
\* failed = 0, having issued no embedding request and no upsert call.
C16_EmptyFetchReportsZeros ==
    (run_pc \in {"raised", "returned"} /\ ~IsNone(vectodb_ids) /\ mart = {}) =>
        /\ ~IsNone(run_ret)
        /\ Val(run_ret).total = 0 /\ Val(run_ret).inserted = 0 /\ Val(run_ret).failed = 0
        /\ responses = <<>> /\ upsert_calls = <<>>

\* C17: the pipeline never mutates a candidate record. When
\* transform_properties is over for a list in which some record has enough
\* text, it has returned; the records handed to it are as they were when
\* fetched, and the records it returned are copies of the kept ones carrying
\* the searchable text and the embedding.
C17_EnrichesACopy ==
    (transform_pc \in {"returned", "raised"} /\ valid_props # <<>>) =>
        /\ transform_pc = "returned"
        /\ t_properties = fetched
        /\ Len(Val(transform_ret)) = Len(valid_props)
        /\ \A j \in 1..Len(valid_props) :
              /\ {"text", "embedding"} \subseteq DOMAIN Val(transform_ret)[j]
              /\ \A f \in DOMAIN fetched[valid_props[j]] :
                    Val(transform_ret)[j][f] = fetched[valid_props[j]][f]

\* C18: interruption between batches. When insert_properties is interrupted
\* after some batches were upserted, the rows written stay in the collection
\* and a partial summary of the work done so far is still given to the
\* caller.
C18_InterruptEmitsPartialSummary ==
    (insert_pc = "interrupted" /\ total_inserted > 0) =>
        /\ \A c \in 1..Len(upsert_calls) :
              ~upsert_calls[c].raised =>
                  \A j \in 1..Len(upsert_calls[c].positions) :
                      \E r \in store :
                          r.property_id
                              = model_dump(properties[upsert_calls[c].positions[j]]).property_id
        /\ ~IsNone(insert_ret)
        /\ Val(insert_ret).inserted = total_inserted

\* C19: identifier uniqueness in the vector store. The collection holds at
\* most one row per property_id; every batch of the loop is sent in one
\* upsert call carrying the whole validated batch; a write that reaches the
\* collection leaves each row of the batch as the row of its identifier, and
\* when every identifier of the batch was stored already the number of rows
\* does not change.
PayloadIds(data) == {data[j].property_id : j \in 1..Len(data)}
RowIds(rows) == {r.property_id : r \in rows}
UniqueIds(rows) ==
    \A r1 \in rows, r2 \in rows : r1.property_id = r2.property_id => r1 = r2
C19_OneEntryPerIdentifier ==
    /\ [](/\ UniqueIds(store)
          /\ \A c1 \in 1..Len(upsert_calls), c2 \in 1..Len(upsert_calls) :
                upsert_calls[c1].batch_num = upsert_calls[c2].batch_num => c1 = c2)
    /\ [][ Len(upsert_calls') > Len(upsert_calls) =>
             /\ Len(upsert_calls') = Len(upsert_calls) + 1
             /\ upsert_payload' = batch_validated
             /\ (store' # store \/ ~upsert_calls'[Len(upsert_calls')].raised) =>
                   /\ \A j \in 1..Len(batch_validated) : batch_validated[j] \in store'
                   /\ RowIds(store') = RowIds(store) \cup PayloadIds(batch_validated)
             /\ PayloadIds(batch_validated) \subseteq RowIds(store) =>
                   Cardinality(store') = Cardinality(store)
             /\ store' # store => UniqueIds(store')
         ]_vars
\* The collection held an earlier version of the first listing; the batch
\* with that listing was upserted and took the earlier row's place.
C19_Witness ==
    /\ Len(upsert_calls) = 1
    /\ ~upsert_calls[1].raised
    /\ upsert_calls[1].num_entities = 1
    /\ Len(upsert_payload) = 1
    /\ upsert_payload[1].property_id = Some(Id(1))
    /\ store = {upsert_payload[1]}
    /\ StoredRow(1, collection_dim) \notin store

\* C20: enumeration terminates. With no writer beside it, a call of
\* get_property_ids that entered its loop returns or raises, whatever the
\* page size; the loop takes at most one turn per full page of the
\* collection and one more; every page request that brings rows moves the
\* cursor to a strictly greater identifier; the loop goes on after a full
\* page only, and is left at the first page that is short or empty.
ShortPage(q) == Len(pages[q]) < ids_batch_size
C20_EnumerationTerminates ==
    /\ (ids_pc = "loop") ~> (ids_pc \in {"returned", "raised"})
    /\ [](/\ iteration = Len(pages)
          /\ iteration <= (Cardinality(StoreIds(store)) \div ids_batch_size) + 1
          /\ \A q \in 1..Len(pages) :
                ShortPage(q) => (q = Len(pages) /\ ids_pc \in {"finish", "returned"})
          /\ (ids_pc \in {"finish", "returned"}) =>
                (Len(pages) > 0 /\ ShortPage(Len(pages))))
    /\ [][ (iteration' = iteration + 1 /\ pages'[iteration'] # <<>>) =>
             /\ ~IsNone(last_property_id')
             /\ Val(last_property_id') = pages'[iteration'][Len(pages'[iteration'])]
             /\ IsNone(last_property_id) \/
                   StrLess(Val(last_property_id), Val(last_property_id'))
         ]_vars
\* Two identifiers with page size 1: two full pages, then the empty page
\* that ends the loop.
C20_Witness ==
    /\ ids_pc = "returned"
    /\ ids_batch_size = 1
    /\ Cardinality(StoreIds(store)) = 2
    /\ iteration = 3
    /\ Len(pages[1]) = 1 /\ Len(pages[2]) = 1 /\ pages[3] = <<>>

\* C21: enumeration under concurrent writes. When get_property_ids returns
\* after other processes have upserted rows during the pagination, every
\* identifier that was in the collection when the first page was asked for
\* is in the list returned, and every identifier returned is in the
\* collection.
C21_EnumerationUnderWrites ==
    ids_pc = "returned" =>
        LET ret == Val(ids_ret)
            returned == {ret[j] : j \in 1..Len(ret)}
        IN  /\ ids_before \subseteq returned
            /\ returned \subseteq StoreIds(store)
\* Rows were written during the pagination, one of them behind the cursor:
\* the list returned holds what was there at the start and misses that row.
C21_Witness ==
    /\ ids_pc = "returned"
    /\ ids_before # {}
    /\ Len(pages) >= 2
    /\ \E id \in StoreIds(store) \ ids_before :
          \A j \in 1..Len(Val(ids_ret)) : Val(ids_ret)[j] # id

\* C22: bounded embedding concurrency. At every moment the number of
\* embedding requests in flight is at most max_workers and at most the size
\* of the chunk being processed; between two chunks none is in flight or
\* waiting; every text of an earlier chunk has had its request completed and
\* no request for a text of a later chunk has been made.
C22_BoundedEmbeddingConcurrency ==
    /\ Cardinality(Running) <= max_workers
    /\ Cardinality(Running) <= Len(Batch)
    /\ embed_pc \in {"batch", "fill", "finish", "returned"} =>
          (Running = {} /\ Queued = {})
    /\ \A k \in 1..Len(texts) :
          /\ k > BatchEnd => responses[k].kind = "none"
          /\ (k <= BatchStart /\ embed_pc # "idle") => responses[k].kind # "none"
\* A chunk of three texts: two requests in flight, the third waiting for a
\* worker.
C22_Witness ==
    /\ Len(Batch) = 3
    /\ Cardinality(Running) = max_workers
    /\ Queued # {}

\* C23: join barrier on the results array of a chunk. A slot of
\* batch_embeddings is set exactly when the request submitted for its index
\* has been collected, no two requests are written to one slot, a slot once
\* set is not written again, a step writes one slot at most and only for a
\* request that has completed; the array is handed back only when every
\* request of the chunk has completed and every slot is set.
C23_JoinBarrier ==
    /\ [](/\ embed_pc \in {"collect", "fill"} =>
                \A j \in 1..Len(batch_embeddings) :
                    /\ IsNone(batch_embeddings[j]) <=> j \in Pending
                    /\ batch_origin[j] # 0 => batch_origin[j] = BatchStart + j
          /\ embed_pc = "fill" =>
                /\ Pending = {}
                /\ \A f \in DOMAIN futures : futures[f].st = "done"
                /\ \A j \in 1..Len(batch_embeddings) : ~IsNone(batch_embeddings[j])
          /\ Len(all_embeddings) = Min(batch_num * embed_batch_size, Len(texts)))
    /\ [][ embed_pc # "batch" =>
             /\ Len(batch_embeddings') = Len(batch_embeddings)
             /\ \A j \in 1..Len(batch_embeddings) :
                   /\ ~IsNone(batch_embeddings[j]) =>
                         batch_embeddings'[j] = batch_embeddings[j]
                   /\ batch_embeddings'[j] # batch_embeddings[j] =>
                         /\ futures[j].st = "done"
                         /\ batch_embeddings'[j] = futures[j].result
             /\ Cardinality({j \in 1..Len(batch_embeddings) :
                                batch_embeddings'[j] # batch_embeddings[j]}) <= 1
         ]_vars
\* A chunk of three whose requests were collected out of submission order,
\* one of them having failed: the loop over as_completed is over and every
\* slot is set.
C23_Witness ==
    /\ embed_pc = "fill"
    /\ Len(batch_embeddings) = 3
    /\ overtaken
    /\ \E j \in 1..3 : batch_embeddings[j] = Some(Zeros(embedding_dim))
    /\ \A j \in 1..3 : ~IsNone(batch_embeddings[j])

\* C24: vectors stay aligned with candidates through the transform. When
\* transform_properties is over, for any list of records, some of them
\* skipped or not, it has returned one record per kept record, in order, each
\* with the identifier of the kept record at its position, the searchable
\* text built from that record and the embedding made for that text.
C24_TransformKeepsAlignment ==
    transform_pc \in {"returned", "raised"} =>
        /\ transform_pc = "returned"
        /\ Len(Val(transform_ret)) = Len(valid_props)
        /\ \A j \in 1..Len(valid_props) :
              /\ Val(transform_ret)[j].property_id = fetched[valid_props[j]].property_id
              /\ Val(transform_ret)[j].text = t_texts[j]
              /\ t_texts[j].id = valid_props[j]
              /\ Val(transform_ret)[j].embedding.dir = PromptKey(Prompt(t_texts[j]))

\* Whether the searchable text of a record is built and is too short.
InsufficientText(prop) ==
    ~PreprocessRaises(prop) /\ SearchableTextLen(prop) < TextMinLen
\* C25: insufficient text means ineligible, not failed. When
\* transform_properties is over for a list holding a record whose searchable
\* text is shorter than 10 characters, no text of such a record was handed to
\* the embedder, nothing was recorded as failed, and the other records were
\* processed: the call returned one record for each of them.
C25_InsufficientTextIsSkipped ==
    (transform_pc \in {"returned", "raised"}
        /\ \E p \in 1..Len(t_properties) : InsufficientText(t_properties[p])) =>
        /\ \A j \in 1..Len(valid_props) : ~InsufficientText(t_properties[valid_props[j]])
        /\ failed_records = <<>> /\ upsert_calls = <<>>
        /\ transform_pc = "returned"
        /\ Len(Val(transform_ret)) =
              Cardinality({p \in 1..Len(t_properties) : KeepsRecord(t_properties[p])})

\* C26: dimension adopted at startup. Once EmbeddingService is constructed,
\* its embedding_dim is the length of the test embedding of the health
\* check, whatever dimension it was given and whichever model was selected;
\* every vector put in the place of a failed request, by encode_batch or by
\* encode, is the zero vector of that length.
C26_DimensionAdoptedAtStartup ==
    embedder = "constructed" =>
        /\ Val(health).test.kind = "ok"
        /\ embedding_dim = Val(health).test.dim
        /\ \A k \in 1..Len(all_embeddings) :
              k \in FailedTexts => all_embeddings[k] = Zeros(Val(health).test.dim)
        /\ \A j \in 1..Len(batch_embeddings) :
              (embed_pc \in {"collect", "fill"} /\ ~IsNone(batch_embeddings[j])
                  /\ BatchStart + j \in FailedTexts) =>
                  batch_embeddings[j] = Some(Zeros(Val(health).test.dim))
        /\ (~IsNone(encode_response) /\ Val(encode_response).kind # "ok") =>
              encode_ret = Some(Zeros(Val(health).test.dim))
\* The fallback model was selected and answered with a shorter vector than
\* its 768; a later batch had a failed request, replaced by zeros of the
\* adopted length.
C26_Witness ==
    /\ embedder = "constructed"
    /\ Val(health).tags = "fallback"
    /\ Val(health).test.dim = EmbMinLen
    /\ embed_pc = "returned"
    /\ FailedTexts # {}
    /\ \A k \in FailedTexts : all_embeddings[k] = Zeros(EmbMinLen)

\* The positions sent in the upsert calls that raised (flag) or returned.
SentPositions(flag) ==
    UNION { {upsert_calls[c].positions[j] : j \in 1..Len(upsert_calls[c].positions)} :
                c \in {d \in 1..Len(upsert_calls) : upsert_calls[d].raised = flag} }
\* The entries of failed_records of one kind under one identifier.
FailedEntries(kind, id) ==
    {r \in 1..Len(failed_records) :
        failed_records[r].kind = kind /\ failed_records[r].property_id = id}
\* C27: every record has exactly one outcome and is never retried. Within a
\* call of insert_properties no record is sent in two upsert calls and the
\* loop never goes back; when the call returns, every record the validator
\* accepted was sent in an upsert call, and failed_records holds one entry
\* for each record the validator rejected and one for each record of a batch
\* whose upsert raised, and no other entry, so that a record is either in a
\* batch whose upsert returned or in failed_records, once. failed_records
\* only grows during the call.
C27_ExactlyOneOutcome ==
    /\ [](/\ \A c1 \in 1..Len(upsert_calls), c2 \in 1..Len(upsert_calls) :
                \A j1 \in 1..Len(upsert_calls[c1].positions),
                   j2 \in 1..Len(upsert_calls[c2].positions) :
                    upsert_calls[c1].positions[j1] = upsert_calls[c2].positions[j2]
                        => (c1 = c2 /\ j1 = j2)
          /\ (Returned /\ properties # <<>>) =>
                LET all == 1..Len(properties)
                    rejected == {p \in all : ~Validates(properties[p])}
                    ok == SentPositions(FALSE)
                    bad == SentPositions(TRUE)
                IN  /\ ok \cap bad = {}
                    /\ ok \cup bad = all \ rejected
                    /\ Len(failed_records) = Cardinality(rejected) + Cardinality(bad)
                    /\ \A p \in rejected :
                          Cardinality(FailedEntries("validation", GetPropertyId(properties[p])))
                            = Cardinality({q \in rejected : GetPropertyId(properties[q])
                                                             = GetPropertyId(properties[p])})
                    /\ \A p \in bad :
                          Cardinality(FailedEntries("insert",
                                          model_dump(properties[p]).property_id))
                            = Cardinality({q \in bad : model_dump(properties[q]).property_id
                                                        = model_dump(properties[p]).property_id})
                    /\ \A p \in ok :
                          FailedEntries("insert", model_dump(properties[p]).property_id) = {}
                    /\ Val(insert_ret).failed_records = failed_records)
    /\ [][ insert_pc # "idle" =>
             /\ i' >= i
             /\ Len(failed_records') >= Len(failed_records)
             /\ SubSeq(failed_records', 1, Len(failed_records)) = failed_records
         ]_vars
\* Three batches of one record: the first upserted, the second rejected by
\* the validator, the upsert of the third raised.
C27_Witness ==
    /\ Returned
    /\ Len(properties) = 3 /\ batch_size = 1
    /\ Len(upsert_calls) = 2
    /\ ~upsert_calls[1].raised /\ upsert_calls[1].positions = <<1>>
    /\ upsert_calls[2].raised /\ upsert_calls[2].positions = <<3>>
    /\ Len(failed_records) = 2
    /\ failed_records[1].kind = "validation" /\ failed_records[2].kind = "insert"

\* C29: summary accounting. In every summary insert_properties returns,
\* total is the number of records it was handed, failed is the length of
\* failed_records, inserted lies between 0 and total, and inserted + failed =
\* total; the store answers each upsert that returns with an insert count
\* equal to the number of rows sent, or with none.
C29_SummaryAccounting ==
    Returned =>
        LET ret == Val(insert_ret)
        IN  /\ ret.total = Len(properties)
            /\ ret.failed = Len(ret.failed_records)
            /\ ret.inserted = Cardinality(SentPositions(FALSE))
            /\ 0 <= ret.inserted /\ ret.inserted <= ret.total
            /\ ret.inserted + ret.failed = ret.total
\* Three records in batches of two: one rejected and one upserted in the
\* first batch, the upsert of the second batch raised.
C29_Witness ==
    /\ Returned
    /\ Len(properties) = 3 /\ batch_size = 2
    /\ Val(insert_ret).total = 3
    /\ Val(insert_ret).inserted = 1
    /\ Val(insert_ret).failed = 2
    /\ Len(upsert_calls) = 2 /\ upsert_calls[2].raised

\* C28: failed records are persisted to the side file. A run that is over,
\* its enumeration having returned and the mart holding rows, has returned
\* its summary; validation_failures.json was written with the failed
\* records of the summary when there are some, and was not written when
\* there are none.
C28_FailedRecordsPersisted ==
    (run_pc \in {"raised", "returned"} /\ ~IsNone(vectodb_ids) /\ mart # {}) =>
        /\ run_pc = "returned"
        /\ ~IsNone(run_ret)
        /\ Val(run_ret).failed_records # <<>> =>
              validation_failures = Some(Val(run_ret).failed_records)
        /\ Val(run_ret).failed_records = <<>> => IsNone(validation_failures)

\* The numeric fields of PropertyVectorsModel.
NumericFields ==
    {"price_egp", "bedrooms", "bathrooms", "area_sqm", "floor_number",
     "latitude", "longitude"}
\* C30: the fetch predicate implies the validator's numeric bounds. A record
\* of a row the mart build marked complete and the fetch query selected is
\* not rejected by PropertyVectorsModel for any numeric field.
C30_FetchedWithinNumericBounds ==
    (mart_row # None /\ verdict # None) =>
        \A e \in Val(verdict) : e[1] \notin NumericFields

====
